---- MODULE Spec2Model ----
(***************************************************************************)
(* Picky BPE (PBPE): the trainer's merge / retract loop (trainer.rs), the  *)
(* symbol chain Word with its replay engine merge_split_all (word.rs) and  *)
(* the encoder PBPE::tokenize (model.rs).                                  *)
(*                                                                         *)
(* Conventions.  Token ids, symbol indices, ranks and word indices are     *)
(* 0-based as in the source; a TLA+ sequence s holds source index i at     *)
(* s[i+1].  A string is a sequence of characters, a character is its code  *)
(* point.  A HashMap is a function whose DOMAIN is the key set.  An        *)
(* Option<usize> of None is -1, an Option<String> of None is <<>>.         *)
(***************************************************************************)
EXTENDS Integers, Sequences, FiniteSets, TLC

VARIABLES
    \* ---- PbpeTrainer configuration and its input
    cfg,                 \* the trainer's option fields
    word_counts,         \* sequence of [word, count]: the HashMap in iteration order
    \* ---- locals of PbpeTrainer::do_train
    id_to_word,          \* Vec<String>; word_to_id is its inverse (WordToId)
    atomic_size,
    words,               \* Vec<Word>
    counts,              \* Vec<u64>
    pair_counts,         \* HashMap<Pair, i32>
    queue,               \* PriorityQueue<Merge, i32>: pair -> [pos, priority]
    id_active,           \* Vec<u8>
    parents,             \* Vec<Pair>
    actual_vocab_size,
    count_merged_tokens, \* HashMap<u32, i32>
    merges,              \* Vec<(Pair, u32)>
    splits,              \* Vec<(u32, Vec<usize>)>
    events,              \* Vec<(EventType, usize)>
    split_ctx,           \* history: id_active as it was when splits[k] was pushed
    last_pop,            \* history: what the last loop iteration popped, and from what
    pc,                  \* "train" | "panic" | "model" | "replay" | "error" | "done"
    \* ---- the PBPE model that do_train fills in
    merges_map,          \* model.merges : Pair -> Vec<(rank, new_id)>
    splits_map,          \* model.splits : id -> Vec<(rank, Vec<id>)>
    \* ---- one PBPE::tokenize call
    input,               \* the sequence being tokenized
    symbols,             \* Word.symbols of the word under replay
    heap,                \* BinaryHeap<Event> of merge_split_all
    \* ---- a PBPE model in use
    model,               \* the PBPE: vocab, merges, splits and the option fields
    cache,               \* PBPE.cache: sequence -> Word.symbols
    tokens,              \* the Vec<Token> the last tokenize call returned
    cache_hit,           \* history: the last tokenize call was answered from the cache
    \* ---- the model written out and read back
    data,                \* <<>>, or <<the serialized PBPE>>
    restored,            \* <<>>, or <<the PBPE that Deserialize returned>>
    \* ---- one call of a method of Word on its own
    call,                \* the method, the Word it is called on and its arguments
    ret                  \* <<>>, or <<the Word after the call and what the call returned>>

trainVars == <<cfg, word_counts, id_to_word, atomic_size, words, counts, pair_counts,
               queue, id_active, parents, actual_vocab_size, count_merged_tokens,
               merges, splits, events, split_ctx, last_pop>>
modelVars == <<merges_map, splits_map>>
tokVars   == <<input, symbols, heap>>
encVars   == <<model, cache, tokens, cache_hit>>
serVars   == <<data, restored>>
callVars  == <<call, ret>>
vars      == <<trainVars, pc, modelVars, tokVars, encVars, serVars, callVars>>

-----------------------------------------------------------------------------
(* Generic helpers *)

Range(f) == {f[i] : i \in DOMAIN f}

EmptyMap == [x \in {} |-> 0]

Put(f, k, v) == [x \in (DOMAIN f) \cup {k} |-> IF x = k THEN v ELSE f[x]]

Drop(f, k) == [x \in (DOMAIN f) \ {k} |-> f[x]]

RECURSIVE Concat(_)
Concat(ss) == IF ss = <<>> THEN <<>> ELSE Head(ss) \o Concat(Tail(ss))

RECURSIVE SetToSeq(_)
\* the elements of a finite set of integers in increasing order
SetToSeq(S) ==
    IF S = {} THEN <<>>
    ELSE LET m == CHOOSE x \in S : \A y \in S : x <= y
         IN  <<m>> \o SetToSeq(S \ {m})

StartsWith(s, p) == Len(p) <= Len(s) /\ SubSeq(s, 1, Len(p)) = p

EndsWith(s, p) == Len(p) <= Len(s) /\ SubSeq(s, Len(s) - Len(p) + 1, Len(s)) = p

\* the gate with <= for <
FitsLeq(x, max_length) == IF max_length = -1 THEN TRUE ELSE x <= max_length

\* `x < max_length` where max_length is max_token_length.unwrap_or(usize::MAX)
Fits(x, max_length) == IF max_length = -1 THEN TRUE ELSE x < max_length

-----------------------------------------------------------------------------
(* word.rs: Symbol and Word *)

Symbol(c, prev, next, len) == [c |-> c, prev |-> prev, next |-> next, len |-> len]

\* Word::add
Add(w, c, byte_len) ==
    IF Len(w) > 0
    THEN [w EXCEPT ![Len(w)].next = Len(w)] \o <<Symbol(c, Len(w) - 1, -1, byte_len)>>
    ELSE <<Symbol(c, -1, -1, byte_len)>>

RECURSIVE AddSymbols(_, _)
\* Word::add for each (c, len) of a list
AddSymbols(w, cl) == IF cl = <<>> THEN w ELSE AddSymbols(Add(w, cl[1][1], cl[1][2]), Tail(cl))

\* Word::get_chars
get_chars(w) == [i \in 1..Len(w) |-> w[i].c]

RECURSIVE get_offsets_from(_, _)
get_offsets_from(w, pos) ==
    IF w = <<>> THEN <<>>
    ELSE <<<<pos, pos + Head(w).len>>>> \o get_offsets_from(Tail(w), pos + Head(w).len)

\* Word::get_offsets_iter
get_offsets(w) == get_offsets_from(w, 0)

\* a new symbol that takes the len of the first symbol alone
NewSymbolFirstLen(first, second, replacement) ==
    Symbol(replacement, first.prev, second.next, first.len)

\* `let new_s = Symbol { c: replacement, prev: first.prev, next: second.next, .. }`
NewSymbol(first, second, replacement) ==
    Symbol(replacement, first.prev, second.next, first.len + second.len)

RECURSIVE MergeLoop(_, _, _, _, _, _, _)
MergeLoop(w, changes, i, c1, c2, replacement, max_length) ==
    IF i >= Len(w) THEN [symbols |-> w, changes |-> changes]
    ELSE IF w[i + 1].c = c1 /\ i + 1 < Len(w) /\ w[i + 2].c = c2
    THEN LET first  == w[i + 1]
             second == w[i + 2]
             new_s  == NewSymbol(first, second, replacement)
             left   == IF i > 0
                       THEN <<<<<<w[i].c, first.c>>, -1>>>>
                            \o (IF Fits(w[i].len + new_s.len, max_length)
                                THEN <<<<<<w[i].c, replacement>>, 1>>>> ELSE <<>>)
                       ELSE <<>>
             w2     == SubSeq(w, 1, i) \o <<new_s>> \o SubSeq(w, i + 3, Len(w))
             right  == IF i < Len(w2) - 1
                       THEN <<<<<<second.c, w2[i + 2].c>>, -1>>>>
                            \o (IF Fits(w2[i + 2].len + new_s.len, max_length)
                                THEN <<<<<<replacement, w2[i + 2].c>>, 1>>>> ELSE <<>>)
                       ELSE <<>>
         IN  MergeLoop(w2, changes \o left \o right, i + 1, c1, c2, replacement, max_length)
    ELSE MergeLoop(w, changes, i + 1, c1, c2, replacement, max_length)

\* Word::merge: the word after the merge and the pair-count deltas
WordMerge(w, c1, c2, replacement, max_length) ==
    MergeLoop(w, <<<<<<c1, c2>>, -1>>>>, 0, c1, c2, replacement, max_length)

RECURSIVE RemoveInsert(_, _, _, _, _, _, _, _)
\* the `for j in 0..split.len()` loop of Word::remove
RemoveInsert(w, changes, i, j, split, prev, removed_token_len, max_length) ==
    IF j >= Len(split) THEN [symbols |-> w, changes |-> changes]
    ELSE LET new_s == Symbol(split[j + 1], prev, i + j + 1, removed_token_len)
             add   == IF i > 0 /\ Fits(w[i + j].len + new_s.len, max_length)
                      THEN <<<<<<w[i + j].c, split[j + 1]>>, 1>>>> ELSE <<>>
             w2    == SubSeq(w, 1, i + j) \o <<new_s>> \o SubSeq(w, i + j + 1, Len(w))
         IN  RemoveInsert(w2, changes \o add, i, j + 1, split, prev,
                          removed_token_len, max_length)

RECURSIVE RemoveLoop(_, _, _, _, _, _)
RemoveLoop(w, changes, i, removed_token, split, max_length) ==
    IF i >= Len(w) THEN [symbols |-> w, changes |-> changes]
    ELSE IF w[i + 1].c = removed_token
    THEN LET removed_token_len == w[i + 1].len
             gone  == (IF i > 0 THEN <<<<<<w[i].c, removed_token>>, -1>>>> ELSE <<>>)
                      \o (IF i < Len(w) - 1
                          THEN <<<<<<removed_token, w[i + 2].c>>, -1>>>> ELSE <<>>)
             prev  == w[i + 1].prev
             w1    == SubSeq(w, 1, i) \o SubSeq(w, i + 2, Len(w))
             ins   == RemoveInsert(w1, changes \o gone, i, 0, split, prev,
                                   removed_token_len, max_length)
             w2    == ins.symbols
             k     == Len(split)
             after == IF i + k < Len(w2) /\ Fits(w2[i + k].len + w2[i + k + 1].len, max_length)
                      THEN <<<<<<w2[i + k].c, w2[i + k + 1].c>>, 1>>>> ELSE <<>>
         IN  RemoveLoop(w2, ins.changes \o after, i + 1, removed_token, split, max_length)
    ELSE RemoveLoop(w, changes, i + 1, removed_token, split, max_length)

\* Word::remove: the word after the retraction and the pair-count deltas
WordRemove(w, removed_token, split, max_length) ==
    RemoveLoop(w, <<>>, 0, removed_token, split, max_length)

-----------------------------------------------------------------------------
(* trainer.rs: vocabulary construction *)

Contains(itw, s) == \E i \in 1..Len(itw) : itw[i] = s

\* word_to_id[s]; the map is kept the inverse of id_to_word by every insertion
WordToId(itw, s) == (CHOOSE i \in 1..Len(itw) : itw[i] = s) - 1

\* `if !w2id.contains_key(&s) { id2w.push(s); w2id.insert(s, id2w.len() - 1) }`
PushNew(itw, s) == IF Contains(itw, s) THEN itw ELSE Append(itw, s)

RECURSIVE PushAll(_, _)
PushAll(itw, ss) ==
    IF ss = <<>> THEN itw ELSE PushAll(PushNew(itw, Head(ss)), Tail(ss))

\* PbpeTrainer::add_special_tokens
add_special_tokens(c) == PushAll(<<>>, c.special_tokens)

RECURSIVE SumSeq(_)
SumSeq(s) == IF s = <<>> THEN 0 ELSE Head(s) + SumSeq(Tail(s))

Occurrences(word, ch) == Cardinality({k \in 1..Len(word) : word[k] = ch})

\* the frequency alone, for the characters of initial_alphabet too
AlphabetWeightByCount(c, wc, ch) ==
    SumSeq([i \in 1..Len(wc) |-> wc[i].count * Occurrences(wc[i].word, ch)])

\* the weight compute_alphabet gives a character: its frequency, or usize::MAX
\* (written -1) for a character of initial_alphabet
AlphabetWeight(c, wc, ch) ==
    IF ch \in c.initial_alphabet THEN -1
    ELSE SumSeq([i \in 1..Len(wc) |-> wc[i].count * Occurrences(wc[i].word, ch)])

WeightLeq(a, b) == b = -1 \/ (a # -1 /\ a <= b)

\* PbpeTrainer::compute_alphabet, up to the removal of the unwanted chars: the
\* character sets `kept` can hold.  sort_unstable_by_key over a HashMap's
\* iteration order leaves the order of equal weights open, so every choice of
\* to_remove lightest characters is possible.
KeptSets(c, wc) ==
    LET alphabet  == UNION {Range(wc[i].word) : i \in 1..Len(wc)} \cup c.initial_alphabet
        n         == Cardinality(alphabet)
        to_remove == IF c.limit_alphabet # -1 /\ n > c.limit_alphabet
                     THEN n - c.limit_alphabet ELSE 0
    IN  { alphabet \ R : R \in
            { R \in SUBSET alphabet :
                /\ Cardinality(R) = to_remove
                /\ \A r \in R : \A k \in alphabet \ R :
                      WeightLeq(AlphabetWeight(c, wc, r), AlphabetWeight(c, wc, k)) } }

\* PbpeTrainer::compute_alphabet, the insertion of the kept characters sorted by
\* code point
compute_alphabet(itw, kept) ==
    PushAll(itw, [i \in 1..Cardinality(kept) |-> <<SetToSeq(kept)[i]>>])

RECURSIVE TokenizeChars(_, _, _, _, _)
\* the inner loop of tokenize_words over the characters of one word
TokenizeChars(c, itw, word, k, cur) ==
    IF k > Len(word) THEN [itw |-> itw, word |-> cur]
    ELSE IF Contains(itw, <<word[k]>>)
    THEN LET s1   == IF k # 1 THEN c.prefix \o <<word[k]>> ELSE <<word[k]>>
             s    == IF k = Len(word) THEN s1 \o c.suffix ELSE s1
             itw2 == PushNew(itw, s)
         IN  TokenizeChars(c, itw2, word, k + 1, Add(cur, WordToId(itw2, s), 1))
    ELSE TokenizeChars(c, itw, word, k + 1, cur)

RECURSIVE TokenizeWords(_, _, _, _)
TokenizeWords(c, itw, wc, ws) ==
    IF wc = <<>> THEN [itw |-> itw, words |-> ws]
    ELSE LET r == TokenizeChars(c, itw, Head(wc).word, 1, <<>>)
         IN  TokenizeWords(c, r.itw, Tail(wc), Append(ws, r.word))

\* PbpeTrainer::tokenize_words
tokenize_words(c, itw, wc) == TokenizeWords(c, itw, wc, <<>>)

PairsOf(w) == {<<w[k].c, w[k + 1].c>> : k \in 1..(Len(w) - 1)}

PairOcc(w, p) == Cardinality({k \in 1..(Len(w) - 1) : <<w[k].c, w[k + 1].c>> = p})

\* PbpeTrainer::count_pairs
count_pairs(ws, cnts) ==
    LET all == UNION {PairsOf(ws[i]) : i \in 1..Len(ws)}
    IN  [pair_counts |->
            [p \in all |-> SumSeq([i \in 1..Len(ws) |-> cnts[i] * PairOcc(ws[i], p)])],
         where_to_update |->
            [p \in all |-> {i - 1 : i \in {j \in 1..Len(ws) : p \in PairsOf(ws[j])}}]]

RECURSIVE split(_, _, _, _)
\* a split that stops at the parents, whether they are active or not
split_parents(token_id, prnts, active, atomic) ==
    IF token_id < atomic \/ active[token_id - atomic + 1] = 1
    THEN <<token_id>>
    ELSE prnts[token_id - atomic + 1]

\* PbpeTrainer::split
split(token_id, prnts, active, atomic) ==
    IF token_id < atomic \/ active[token_id - atomic + 1] = 1
    THEN <<token_id>>
    ELSE LET pr == prnts[token_id - atomic + 1]
         IN  split(pr[1], prnts, active, atomic) \o split(pr[2], prnts, active, atomic)

\* `(priority as f64) / f64::from(count) >= tau`, tau = tau[1] / tau[2], tau[2] > 0.
\* Division by 0.0 gives +inf for the positive priorities that reach the test.
IosReached(priority, count, tau) ==
    IF count > 0 THEN priority * tau[2] >= tau[1] * count
    ELSE IF count = 0 THEN priority > 0
    ELSE priority * tau[2] <= tau[1] * count

\* do_train up to the main loop: lines 477-552.  `changes` and `where_to_update`
\* are empty between two iterations of the loop.
TrainStart(c, wc, kept) ==
    LET itw0 == compute_alphabet(add_special_tokens(c), kept)
        tw   == tokenize_words(c, itw0, wc)
        cnts == [i \in 1..Len(wc) |-> wc[i].count]
        cp   == count_pairs(tw.words, cnts)
    IN  [id_to_word |-> tw.itw,
         atomic_size |-> Len(tw.itw),
         words |-> tw.words,
         counts |-> cnts,
         pair_counts |-> cp.pair_counts,
         queue |-> [p \in {q \in DOMAIN cp.pair_counts : cp.pair_counts[q] > 0} |->
                      [pos |-> SetToSeq(cp.where_to_update[p]),
                       priority |-> cp.pair_counts[p]]],
         id_active |-> <<>>,
         parents |-> <<>>,
         actual_vocab_size |-> Len(tw.itw),
         count_merged_tokens |-> EmptyMap,
         merges |-> <<>>,
         splits |-> <<>>,
         events |-> <<>>,
         split_ctx |-> <<>>,
         last_pop |-> [kind |-> "none"],
         changes |-> <<>>,
         where_to_update |-> EmptyMap,
         pc |-> "train"]

-----------------------------------------------------------------------------
(* trainer.rs: one iteration of the main loop of do_train *)

\* `top.pair.k >= atomic_size && id_active[top.pair.k - atomic_size] == 0`
Inactive(s, id) == id >= s.atomic_size /\ s.id_active[id - s.atomic_size + 1] = 0

\* a test without min_frequency
DiscardedUnlessCounted(s, c, pair, priority) ==
    \/ priority < 1
    \/ Inactive(s, pair[1])
    \/ Inactive(s, pair[2])

\* the test that discards a popped entry: lines 576-584
Discarded(s, c, pair, priority) ==
    \/ priority < 1
    \/ c.min_frequency > priority
    \/ Inactive(s, pair[1])
    \/ Inactive(s, pair[2])

\* `format!("{part_a}{part_b}")` with the continuing_subword_prefix cut from part_b
NewToken(s, c, pair) ==
    LET part_a == s.id_to_word[pair[1] + 1]
        part_b == s.id_to_word[pair[2] + 1]
    IN  IF c.prefix # <<>> /\ StartsWith(part_b, c.prefix)
        THEN part_a \o SubSeq(part_b, Len(c.prefix) + 1, Len(part_b))
        ELSE part_a \o part_b

Tag(changes, iw) == [k \in 1..Len(changes) |-> <<changes[k], iw>>]

RECURSIVE MergeWords(_, _, _, _, _, _)
\* Word::merge on every word of `pos`: lines 644-664
MergeWords(ws, changes, idxs, pair, new_token_id, max_length) ==
    IF idxs = <<>> THEN [words |-> ws, changes |-> changes]
    ELSE LET i == Head(idxs)
             r == WordMerge(ws[i + 1], pair[1], pair[2], new_token_id, max_length)
         IN  MergeWords([ws EXCEPT ![i + 1] = r.symbols], changes \o Tag(r.changes, i),
                        Tail(idxs), pair, new_token_id, max_length)

\* Word::remove on the first word of the corpus alone
RemoveFirstWord(ws, changes, i, removed, split_token, max_length) ==
    IF ws = <<>> THEN [words |-> ws, changes |-> changes]
    ELSE LET r == WordRemove(ws[1], removed, split_token, max_length)
         IN  [words |-> [ws EXCEPT ![1] = r.symbols], changes |-> changes \o Tag(r.changes, 0)]

RECURSIVE RemoveWords(_, _, _, _, _, _)
\* Word::remove on every word of the corpus: lines 696-707 and 750-761
RemoveWords(ws, changes, i, removed, split_token, max_length) ==
    IF i >= Len(ws) THEN [words |-> ws, changes |-> changes]
    ELSE LET r == WordRemove(ws[i + 1], removed, split_token, max_length)
         IN  RemoveWords([ws EXCEPT ![i + 1] = r.symbols], changes \o Tag(r.changes, i),
                         i + 1, removed, split_token, max_length)

RECURSIVE CountOnRemove(_, _, _)
\* `for token in split_token { if let Some(value) = ... { *value -= priority } }`
CountOnRemove(cmt, split_token, priority) ==
    IF split_token = <<>> THEN cmt
    ELSE LET t == Head(split_token)
         IN  CountOnRemove(IF t \in DOMAIN cmt THEN [cmt EXCEPT ![t] = @ - priority] ELSE cmt,
                           Tail(split_token), priority)

\* lines 602-605: `word_to_id.get(&new_token).copied().unwrap_or(id_to_word.len())`
NewTokenId(itw, new_token) ==
    IF Contains(itw, new_token) THEN WordToId(itw, new_token) ELSE Len(itw)

\* lines 602-629: create the new token or re-activate an existing id, log the
\* Merge event.  s.changes collects the deltas of this iteration.
NewTokenStep(s, c, pair, priority) ==
    LET new_token    == NewToken(s, c, pair)
        exists       == Contains(s.id_to_word, new_token)
        new_token_id == NewTokenId(s.id_to_word, new_token)
        pc_top       == s.pair_counts[pair]
    IN  IF exists /\ new_token_id < s.atomic_size
        THEN \* `id_active[(new_token_id - atomic_size) as usize] = 1` underflows: panic
             [s EXCEPT !.pc = "panic"]
        ELSE [s EXCEPT
                !.id_to_word = IF exists THEN @ ELSE Append(@, new_token),
                !.parents    = IF exists THEN @ ELSE Append(@, pair),
                !.id_active  = IF exists THEN [@ EXCEPT ![new_token_id - s.atomic_size + 1] = 1]
                               ELSE Append(@, 1),
                !.actual_vocab_size = @ + 1,
                !.merges = Append(@, <<pair, new_token_id>>),
                !.events = Append(@, <<"Merge", Len(s.merges)>>),
                !.count_merged_tokens =
                    IF new_token_id \in DOMAIN @
                    THEN [@ EXCEPT ![new_token_id] = @ + pc_top]
                    ELSE Put(@, new_token_id, pc_top)]

\* the retracted-parent test of lines 674-675 and 730-731
Retracts(s, c, parent, count, priority) ==
    IosReached(priority, count, c.tau) /\ parent >= s.atomic_size

\* lines 676-716 (pair.0) and 732-771 (pair.1): `parent` is retracted.  cmt is
\* count_merged_tokens after the update on merge.
Retract(s, c, parent, priority, cmt) ==
    LET active1     == [s.id_active EXCEPT ![parent - s.atomic_size + 1] = 0]
        split_token == split(parent, s.parents, active1, s.atomic_size)
        rm          == RemoveWords(s.words, <<>>, 0, parent, split_token, c.max_token_length)
    IN  [s EXCEPT
           !.id_active = active1,
           !.splits    = Append(@, <<parent, split_token>>),
           !.events    = Append(@, <<"Split", Len(s.splits)>>),
           !.split_ctx = Append(@, active1),
           !.words     = rm.words,
           !.changes   = @ \o rm.changes,
           !.actual_vocab_size = @ - 1,
           !.count_merged_tokens = CountOnRemove(cmt, split_token, priority)]

\* a retraction test that takes the count of a token that was never merged to be
\* 0 and does not look at atomic_size
RetractStepAny(s, c, parent, pair, priority) ==
    LET known == parent \in DOMAIN s.count_merged_tokens
        count == IF known THEN s.count_merged_tokens[parent] ELSE 0
        cmt1  == IF known
                 THEN [s.count_merged_tokens EXCEPT ![parent] = @ - s.pair_counts[pair]]
                 ELSE s.count_merged_tokens
    IN  IF ~IosReached(priority, count, c.tau)
        THEN [s EXCEPT !.count_merged_tokens = cmt1]
        ELSE Retract(s, c, parent, priority, cmt1)

\* a retraction test on the count as it is after the update on merge
RetractStepAfter(s, c, parent, pair, priority) ==
    IF parent \notin DOMAIN s.count_merged_tokens THEN s
    ELSE LET cmt1  == [s.count_merged_tokens EXCEPT ![parent] = @ - s.pair_counts[pair]]
         IN  IF ~Retracts(s, c, parent, cmt1[parent], priority)
             THEN [s EXCEPT !.count_merged_tokens = cmt1]
             ELSE Retract(s, c, parent, priority, cmt1)

\* lines 667-717 for pair.0, lines 719-771 for pair.1
RetractStep(s, c, parent, pair, priority) ==
    IF parent \notin DOMAIN s.count_merged_tokens THEN s
    ELSE LET count == s.count_merged_tokens[parent]
             cmt1  == [s.count_merged_tokens EXCEPT ![parent] = @ - s.pair_counts[pair]]
         IN  IF ~Retracts(s, c, parent, count, priority)
             THEN [s EXCEPT !.count_merged_tokens = cmt1]
             ELSE Retract(s, c, parent, priority, cmt1)

\* a queue whose priorities are never changed
ChangePriorityNever(q, pair, priority) == q

\* PriorityQueue::change_priority: on a pair that is not queued it does nothing
ChangePriority(q, pair, priority) ==
    IF pair \in DOMAIN q THEN [q EXCEPT ![pair].priority = priority] ELSE q

RECURSIVE FoldChanges(_, _)
\* lines 774-803: fold the deltas into pair_counts, where_to_update and the queue.
FoldChanges(s, changes) ==
    IF changes = <<>> THEN s
    ELSE LET pair   == Head(changes)[1][1]
             change == Head(changes)[1][2]
             iw     == Head(changes)[2]
             count  == change * s.counts[iw + 1]
             pcs    == IF pair \in DOMAIN s.pair_counts
                       THEN [s.pair_counts EXCEPT ![pair] = @ + count]
                       ELSE Put(s.pair_counts, pair, count)
             wtu    == IF change > 0
                       THEN Put(s.where_to_update, pair,
                                (IF pair \in DOMAIN s.where_to_update
                                 THEN s.where_to_update[pair] ELSE {}) \cup {iw})
                       ELSE s.where_to_update
             q      == ChangePriority(s.queue, pair, pcs[pair])
         IN  FoldChanges([s EXCEPT !.pair_counts = pcs, !.where_to_update = wtu, !.queue = q],
                         Tail(changes))

\* a push that adds the new positions to those of the queued item
RepushAppending(s) ==
    LET wtu  == s.where_to_update
        live == {p \in DOMAIN wtu : s.pair_counts[p] >= 0}
    IN  [p \in (DOMAIN s.queue) \cup live |->
            IF p \in DOMAIN s.queue
            THEN IF p \in live
                 THEN [pos |-> s.queue[p].pos \o SetToSeq(wtu[p]),
                       priority |-> s.pair_counts[p]]
                 ELSE s.queue[p]
            ELSE [pos |-> SetToSeq(wtu[p]), priority |-> s.pair_counts[p]]]

\* lines 804-815: drain where_to_update into the queue, the positions of a pair
\* collected into a Vec.  PriorityQueue::push on an item equal (by pair) to a queued
\* one updates the priority and keeps the queued item, so its `pos` stays what it
\* was.
Repush(s) ==
    LET wtu  == s.where_to_update
        live == {p \in DOMAIN wtu : s.pair_counts[p] >= 0}
    IN  [p \in (DOMAIN s.queue) \cup live |->
            IF p \in DOMAIN s.queue
            THEN IF p \in live THEN [s.queue[p] EXCEPT !.priority = s.pair_counts[p]]
                 ELSE s.queue[p]
            ELSE [pos |-> SetToSeq(wtu[p]), priority |-> s.pair_counts[p]]]

\* the parents retracted pair.1 first
RetractParentsSwapped(s, c, pair, priority) ==
    LET s3 == RetractStep(s, c, pair[2], pair, priority)
    IN  IF pair[2] # pair[1] THEN RetractStep(s3, c, pair[1], pair, priority) ELSE s3

\* lines 667-772: pair.0 first, then pair.1 `if top.pair.1 != top.pair.0`
RetractParents(s, c, pair, priority) ==
    LET s3 == RetractStep(s, c, pair[1], pair, priority)
    IN  IF pair[2] # pair[1] THEN RetractStep(s3, c, pair[2], pair, priority) ELSE s3

\* One iteration of `loop { ... }` (lines 554-820) that pops `pair`.
Iteration(s0, c, pair) ==
    LET top      == s0.queue[pair]
        priority == top.priority
        s        == [s0 EXCEPT !.queue = Drop(@, pair)]
        popped(kind) == [kind |-> kind, pair |-> pair, priority |-> priority, pos |-> top.pos]
    IN  IF Discarded(s, c, pair, priority)
        THEN [s EXCEPT !.last_pop = popped("discard")]
        ELSE LET s1 == NewTokenStep(s, c, pair, priority)
             IN  IF s1.pc = "panic" THEN [s1 EXCEPT !.last_pop = popped("panic")]
                 ELSE
                 LET new_token_id == s1.merges[Len(s1.merges)][2]
                     mg == MergeWords(s1.words, <<>>, top.pos, pair, new_token_id,
                                      c.max_token_length)
                     s2 == [s1 EXCEPT !.words = mg.words, !.changes = mg.changes]
                     s4 == RetractParents(s2, c, pair, priority)
                     s5 == FoldChanges(s4, s4.changes)
                 IN  [s5 EXCEPT !.queue = Repush(s5), !.last_pop = popped("merge"),
                                !.changes = <<>>, !.where_to_update = EmptyMap]

\* PriorityQueue::pop returns an entry of greatest priority.  The queue compares
\* priorities only (Merge's Ord is not consulted), and which of several entries
\* of equal priority sits at the root is a matter of the order in which the
\* HashMap where_to_update was drained into it: any of them can be popped.
QueueTops(q) == {p \in DOMAIN q : \A r \in DOMAIN q : q[r].priority <= q[p].priority}

-----------------------------------------------------------------------------
(* trainer.rs: the end of do_train, lines 825-859 *)

\* a rank taken from the event's index in its own list
EventRankByIndex(event_id, index) == index

\* `event_id as u32`: the rank of an event is its place in `events`
EventRank(event_id, index) == event_id

RECURSIVE FinalizeLoop(_, _, _, _, _, _)
\* `for (event_id, (event_type, index)) in events.iter().enumerate()`
FinalizeLoop(evs, event_id, mgs, spl, mm, sm) ==
    IF event_id >= Len(evs) THEN [merges_map |-> mm, splits_map |-> sm]
    ELSE LET event_type == evs[event_id + 1][1]
             index      == evs[event_id + 1][2]
         IN  IF event_type = "Merge"
             THEN LET pair   == mgs[index + 1][1]
                      new_id == mgs[index + 1][2]
                      old    == IF pair \in DOMAIN mm THEN mm[pair] ELSE <<>>
                  IN  FinalizeLoop(evs, event_id + 1, mgs, spl,
                                   Put(mm, pair, Append(old, <<EventRank(event_id, index), new_id>>)),
                                   sm)
             ELSE LET token_id == spl[index + 1][1]
                      old      == IF token_id \in DOMAIN sm THEN sm[token_id] ELSE <<>>
                  IN  FinalizeLoop(evs, event_id + 1, mgs, spl, mm,
                                   Put(sm, token_id,
                                       Append(old, <<EventRank(event_id, index),
                                                     spl[index + 1][2]>>)))

BuildMaps(evs, mgs, spl) == FinalizeLoop(evs, 0, mgs, spl, EmptyMap, EmptyMap)

-----------------------------------------------------------------------------
(* word.rs: Event and its order, lines 68-107 *)

MergeEvent(pos, rank, new_id) ==
    [kind |-> "Merge", pos |-> pos, rank |-> rank, new_id |-> new_id, split |-> <<>>]

SplitEvent(pos, rank, split_ids) ==
    [kind |-> "Split", pos |-> pos, rank |-> rank, new_id |-> 0, split |-> split_ids]

IntCmp(a, b) == IF a < b THEN -1 ELSE IF a > b THEN 1 ELSE 0

\* `impl Ord for Event`: -1 Less, 0 Equal, 1 Greater
EventCmp(a, b) ==
    IF IntCmp(a.rank, b.rank) # 0 THEN IntCmp(a.rank, b.rank)
    ELSE IF IntCmp(a.pos, b.pos) # 0 THEN IntCmp(a.pos, b.pos)
    ELSE IF a.kind = "Merge" /\ b.kind = "Split" THEN -1
    ELSE IF a.kind = "Split" /\ b.kind = "Merge" THEN 1
    ELSE 0

\* The heap is a bag of events: [event -> number of copies].
HeapPush(h, e) == IF e \in DOMAIN h THEN [h EXCEPT ![e] = @ + 1] ELSE Put(h, e, 1)

HeapRemove(h, e) == IF h[e] > 1 THEN [h EXCEPT ![e] = @ - 1] ELSE Drop(h, e)

RECURSIVE HeapExtend(_, _)
HeapExtend(h, es) == IF es = <<>> THEN h ELSE HeapExtend(HeapPush(h, Head(es)), Tail(es))

\* BinaryHeap::pop returns a greatest element of the heap under Ord
HeapTops(h) == {e \in DOMAIN h : \A f \in DOMAIN h : EventCmp(f, e) <= 0}

-----------------------------------------------------------------------------
(* word.rs: Word::merge_split_all, lines 294-456 *)

\* `vec.iter().find(|&&(rank, _)| rank > r)`: the index of the first such entry, 0 if none
FirstAbove(vec, r) ==
    IF \E k \in 1..Len(vec) : vec[k][1] > r
    THEN CHOOSE k \in 1..Len(vec) : vec[k][1] > r /\ \A j \in 1..(k - 1) : ~(vec[j][1] > r)
    ELSE 0

\* `vec.iter().find(|&&(rank, _)| rank == r)`
FirstAt(vec, r) ==
    IF \E k \in 1..Len(vec) : vec[k][1] = r
    THEN CHOOSE k \in 1..Len(vec) : vec[k][1] = r /\ \A j \in 1..(k - 1) : vec[j][1] # r
    ELSE 0

Get(map, key) == IF key \in DOMAIN map THEN map[key] ELSE <<>>

\* the Merge event for `pair` standing at `pos` that follows rank r, if there is one
MergeAbove(mm, pair, pos, r) ==
    LET vec == Get(mm, pair)
        k   == FirstAbove(vec, r)
    IN  IF k = 0 THEN <<>> ELSE <<MergeEvent(pos, vec[k][1], vec[k][2])>>

SplitAbove(sm, id, pos, r) ==
    LET vec == Get(sm, id)
        k   == FirstAbove(vec, r)
    IN  IF k = 0 THEN <<>> ELSE <<SplitEvent(pos, vec[k][1], vec[k][2])>>

\* lines 299-318: the events the heap starts with
SeedHeap(w, mm) ==
    HeapExtend(EmptyMap,
        Concat([i \in 1..(Len(w) - 1) |->
            LET vec == Get(mm, <<w[i].c, w[i + 1].c>>)
            IN  IF vec = <<>> THEN <<>>
                ELSE <<MergeEvent(i - 1, vec[1][1], vec[1][2])>>]))

\* lines 323-341: a popped Merge event is applied
MergeApplies(w, mm, event) ==
    /\ w[event.pos + 1].len # 0
    /\ w[event.pos + 1].next # -1
    /\ LET right == w[w[event.pos + 1].next + 1]
           vec   == Get(mm, <<w[event.pos + 1].c, right.c>>)
           k     == FirstAt(vec, event.rank)
       IN  k # 0 /\ vec[k][2] = event.new_id

\* lines 343-391: apply a Merge event and enqueue what follows from it
ApplyMerge(w, h, mm, sm, event) ==
    LET pos      == event.pos
        next_pos == w[pos + 1].next
        right    == w[next_pos + 1]
        w1 == [w EXCEPT ![pos + 1].c = event.new_id,
                        ![pos + 1].len = @ + right.len,
                        ![pos + 1].next = right.next,
                        ![next_pos + 1].len = 0]
        w2 == IF right.next > -1 /\ right.next < Len(w1)
              THEN [w1 EXCEPT ![right.next + 1].prev = pos] ELSE w1
        current == w2[pos + 1]
        left  == IF current.prev >= 0
                 THEN MergeAbove(mm, <<w2[current.prev + 1].c, current.c>>,
                                 current.prev, event.rank)
                 ELSE <<>>
        rght  == IF current.next >= 0 /\ current.next < Len(w2)
                 THEN MergeAbove(mm, <<current.c, w2[current.next + 1].c>>, pos, event.rank)
                 ELSE <<>>
        spl   == SplitAbove(sm, current.c, pos, event.rank)
    IN  [symbols |-> w2, heap |-> HeapExtend(h, left \o rght \o spl)]

\* lines 395-413: a popped Split event is applied
SplitApplies(w, sm, event) ==
    /\ w[event.pos + 1].len # 0
    /\ w[event.pos + 1].next # -1
    /\ LET vec == Get(sm, w[event.pos + 1].c)
           k   == FirstAt(vec, event.rank)
       IN  k # 0 /\ vec[k][2] = event.split
    /\ ~(Len(event.split) + event.pos > Len(w))

RECURSIVE SplitWrite(_, _, _, _)
\* the loop of lines 414-430
SplitWrite(w, event, i, prev) ==
    IF i >= Len(event.split) \/ ~(event.pos + i < Len(w)) THEN w
    ELSE SplitWrite(
            [w EXCEPT ![event.pos + i + 1] =
                Symbol(event.split[i + 1], prev,
                       IF event.pos + i < Len(w) - 1 THEN event.pos + i + 1 ELSE -1,
                       1)],
            event, i + 1, event.pos + i)

\* lines 414-450: apply a Split event and enqueue the merges inside the expansion
ApplySplit(w, h, mm, event) ==
    LET k  == Len(event.split)
        w1 == SplitWrite(w, event, 0, w[event.pos + 1].prev)
        inner == Concat([i \in 1..(k - 1) |->
                    MergeAbove(mm, <<event.split[i], event.split[i + 1]>>,
                               event.pos + i - 1, event.rank)])
        w2 == IF event.pos + k < Len(w1)
              THEN [w1 EXCEPT ![event.pos + k + 1].prev = event.pos + k - 1] ELSE w1
    IN  [symbols |-> w2, heap |-> HeapExtend(h, inner)]

\* one turn of `while let Some(top) = queue.pop()` for the popped event
ProcessEvent(w, h, mm, sm, event) ==
    IF event.kind = "Merge"
    THEN IF MergeApplies(w, mm, event) THEN ApplyMerge(w, h, mm, sm, event)
         ELSE [symbols |-> w, heap |-> h]
    ELSE IF SplitApplies(w, sm, event) THEN ApplySplit(w, h, mm, event)
         ELSE [symbols |-> w, heap |-> h]

\* `self.symbols.retain(|s| s.len != 0)`
Retain(w) == SelectSeq(w, LAMBDA s : s.len # 0)

-----------------------------------------------------------------------------
(* model.rs: PBPE::merge_word, lines 259-344, up to the call of merge_split_all *)

\* char::len_utf8
Utf8Len(ch) == IF ch < 128 THEN 1 ELSE IF ch < 2048 THEN 2 ELSE 3

\* the UTF-8 bytes of one character
Utf8(ch) ==
    IF ch < 128 THEN <<ch>>
    ELSE IF ch < 2048 THEN <<192 + (ch \div 64), 128 + (ch % 64)>>
    ELSE <<224 + (ch \div 4096), 128 + ((ch \div 64) % 64), 128 + (ch % 64)>>

Bytes(s) == Concat([k \in 1..Len(s) |-> Utf8(s[k])])

HexDigit(d) == IF d < 10 THEN 48 + d ELSE 55 + d

\* `format!("<{b:#04X}>")`: the string <0xHH>
ByteToken(b) == <<60, 48, 120, HexDigit(b \div 16), HexDigit(b % 16), 62>>

RECURSIVE AddAll(_, _, _)
AddAll(word, ids, byte_len) ==
    IF ids = <<>> THEN word ELSE AddAll(Add(word, Head(ids), byte_len), Tail(ids), byte_len)

\* `if let Some((unk_id, unk_len)) = unk { word.add(unk_id, unk_len) }`
FlushUnk(word, unk) == IF unk = <<>> THEN word ELSE Add(word, unk[1], unk[2])

\* a model that never falls back to bytes
NoByteFallback(m, bs) == FALSE

\* lines 295-304: byte_fallback is set and every byte of s has its <0xHH> in the vocab
ByteFallback(m, bs) ==
    m.byte_fallback /\ \A j \in 1..Len(bs) : Contains(m.vocab, ByteToken(bs[j]))

\* `for t in tokens { word.add(*t, 1) }`
AddBytes(word, ids) == AddAll(word, ids, 1)

RECURSIVE MergeWordLoop(_, _, _, _, _)
\* the character loop of merge_word; unk is <<>> (None) or <<unk_id, unk_len>>
MergeWordLoop(m, w, k, word, unk) ==
    IF k > Len(w) THEN [err |-> FALSE, symbols |-> FlushUnk(word, unk)]
    ELSE
    LET byte_len == Utf8Len(w[k])
        s1 == IF k # 1 THEN m.continuing_subword_prefix \o <<w[k]>> ELSE <<w[k]>>
        s  == IF k = Len(w) THEN s1 \o m.end_of_word_suffix ELSE s1
        bs == Bytes(s)
    IN  IF Contains(m.vocab, s)
        THEN MergeWordLoop(m, w, k + 1,
                           Add(FlushUnk(word, unk), WordToId(m.vocab, s), byte_len), <<>>)
        ELSE IF ByteFallback(m, bs)
        THEN MergeWordLoop(m, w, k + 1,
                           AddBytes(word, [j \in 1..Len(bs) |->
                                              WordToId(m.vocab, ByteToken(bs[j]))]),
                           unk)
        ELSE IF m.unk_token = <<>>
        THEN MergeWordLoop(m, w, k + 1, word, unk)
        ELSE IF unk # <<>> /\ m.fuse_unk
        THEN MergeWordLoop(m, w, k + 1, word, <<unk[1], unk[2] + byte_len>>)
        ELSE IF ~Contains(m.vocab, m.unk_token)
        THEN [err |-> TRUE, symbols |-> <<>>]
        ELSE MergeWordLoop(m, w, k + 1, FlushUnk(word, unk),
                           <<WordToId(m.vocab, m.unk_token), byte_len>>)

\* the Word that merge_word hands to merge_split_all, or the error it returns
InitialWord(m, w) == MergeWordLoop(m, w, 1, <<>>, <<>>)

RECURSIVE ReplayAll(_, _, _, _)
\* `while let Some(top) = queue.pop()` to its end, then the compaction of line 455
ReplayAll(w, h, mm, sm) ==
    IF DOMAIN h = {} THEN Retain(w)
    ELSE LET event == CHOOSE e \in HeapTops(h) : TRUE
             r     == ProcessEvent(w, HeapRemove(h, event), mm, sm, event)
         IN  ReplayAll(r.symbols, r.heap, mm, sm)

\* Word::merge_split_all
merge_split_all(w, mm, sm) == ReplayAll(w, SeedHeap(w, mm), mm, sm)

\* PBPE::merge_word
merge_word(m, w) ==
    LET iw == InitialWord(m, w)
    IN  IF iw.err THEN iw
        ELSE [err |-> FALSE, symbols |-> merge_split_all(iw.symbols, m.merges, m.splits)]

Token(id, value, offsets) == [id |-> id, value |-> value, offsets |-> offsets]

\* PBPE::word_to_tokens; vocab_r[&id] is the string of id
word_to_tokens(m, word) ==
    [i \in 1..Len(word) |-> Token(word[i].c, m.vocab[word[i].c + 1], get_offsets(word)[i])]

-----------------------------------------------------------------------------
(* crate::utils::cache::Cache, as the model uses it: a bounded map from the  *)
(* sequence to its Word                                                      *)

\* the capacity of the cache of a model built without cache_capacity
DEFAULT_CACHE_CAPACITY == 10000

\* Cache::get: <<>> for a miss, <<word>> for a hit
CacheGet(c, key) == IF key \in DOMAIN c THEN <<c[key]>> ELSE <<>>

\* Cache::set: the caches it may leave.  The entry goes in while there is room; in
\* a full cache it is dropped, or it takes the place of an entry
CacheSet(c, capacity, key, value) ==
    IF key \in DOMAIN c \/ Cardinality(DOMAIN c) < capacity
    THEN {Put(c, key, value)}
    ELSE {c} \cup {Put(Drop(c, victim), key, value) : victim \in DOMAIN c}

\* Cache::clear
CacheClear(c) == EmptyMap

-----------------------------------------------------------------------------
(* model.rs: PBPE::tokenize, lines 352-388 *)

\* a cache looked up under another key than the sequence
CacheLookupFirst(m, c, sequence) ==
    IF m.cache_capacity = 0 THEN <<>> ELSE CacheGet(c, SubSeq(sequence, 1, 1))

\* `self.cache.as_ref().and_then(|c| c.get(sequence))`
CacheLookup(m, c, sequence) ==
    IF m.cache_capacity = 0 THEN <<>> ELSE CacheGet(c, sequence)

\* `if let Some(ref cache) = self.cache { cache.set(sequence.to_owned(), word) }`
CacheStore(m, c, sequence, word) ==
    IF m.cache_capacity = 0 THEN {c} ELSE CacheSet(c, m.cache_capacity, sequence, word)

Ok(toks, c) == [err |-> FALSE, tokens |-> toks, cache |-> c, hit |-> FALSE]

Err(c) == [err |-> TRUE, tokens |-> <<>>, cache |-> c, hit |-> FALSE]

\* the shortcut of ignore_merges applies to the sequence
Shortcut(m, sequence) == m.ignore_merges /\ Contains(m.vocab, sequence)

\* PBPE::tokenize_with_cache: what it may return, with the cache it leaves
tokenize_with_cache(m, c, sequence) ==
    IF Shortcut(m, sequence)
    THEN {Ok(<<Token(WordToId(m.vocab, sequence), sequence, <<0, Len(Bytes(sequence))>>)>>, c)}
    ELSE LET hit == CacheLookup(m, c, sequence)
         IN  IF hit # <<>> THEN {[Ok(word_to_tokens(m, hit[1]), c) EXCEPT !.hit = TRUE]}
             ELSE LET r == merge_word(m, sequence)
                  IN  IF r.err THEN {Err(c)}
                      ELSE {Ok(word_to_tokens(m, r.symbols), c2) :
                               c2 \in CacheStore(m, c, sequence, r.symbols)}

\* PBPE::tokenize
tokenize(m, c, sequence) ==
    IF sequence = <<>> THEN {Ok(<<>>, c)} ELSE tokenize_with_cache(m, c, sequence)

\* PbpeBuilder::default().build(): the model handed to do_train
DefaultModel ==
    [vocab |-> <<>>,
     merges |-> EmptyMap,
     splits |-> EmptyMap,
     cache_capacity |-> DEFAULT_CACHE_CAPACITY,
     unk_token |-> <<>>,
     continuing_subword_prefix |-> <<>>,
     end_of_word_suffix |-> <<>>,
     fuse_unk |-> FALSE,
     byte_fallback |-> FALSE,
     ignore_merges |-> FALSE]

\* the model as do_train leaves it: PBPE::default() with the fields of lines 851-870
TrainedModel ==
    [vocab |-> id_to_word,
     merges |-> merges_map,
     splits |-> splits_map,
     cache_capacity |-> DEFAULT_CACHE_CAPACITY,
     unk_token |-> <<>>,
     continuing_subword_prefix |-> cfg.prefix,
     end_of_word_suffix |-> cfg.suffix,
     fuse_unk |-> FALSE,
     byte_fallback |-> FALSE,
     ignore_merges |-> FALSE]

-----------------------------------------------------------------------------
(* serialization.rs: Serialize and Deserialize for PBPE *)

RECURSIVE Decimal(_)
\* an id written in decimal digits
Decimal(n) == IF n < 10 THEN <<48 + n>> ELSE Decimal(n \div 10) \o <<48 + (n % 10)>>

RECURSIVE ParseDecimal(_)
ParseDecimal(str) ==
    IF str = <<>> THEN 0
    ELSE 10 * ParseDecimal(SubSeq(str, 1, Len(str) - 1)) + (str[Len(str)] - 48)

\* `serde_json::to_string(pair)`: the string [a,b]
PairStr(pair) == <<91>> \o Decimal(pair[1]) \o <<44>> \o Decimal(pair[2]) \o <<93>>

\* `serde_json::from_str(&pair_str)`
ParsePair(str) ==
    LET comma == CHOOSE k \in 1..Len(str) : str[k] = 44
    IN  <<ParseDecimal(SubSeq(str, 2, comma - 1)),
          ParseDecimal(SubSeq(str, comma + 1, Len(str) - 1))>>

\* OrderedVocabIter over vocab_r: the (token, id) entries in ascending id order
OrderedVocab(vocab) == [i \in 1..Len(vocab) |-> <<vocab[i], i - 1>>]

\* a map with the keys of `map` rewritten by `key`
Rekey(map, key(_)) ==
    [k \in {key(x) : x \in DOMAIN map} |-> map[CHOOSE x \in DOMAIN map : key(x) = k]]

\* `impl Serialize for PBPE`
Serialize(m) ==
    [type |-> "PBPE",
     unk_token |-> m.unk_token,
     continuing_subword_prefix |-> m.continuing_subword_prefix,
     end_of_word_suffix |-> m.end_of_word_suffix,
     fuse_unk |-> m.fuse_unk,
     byte_fallback |-> m.byte_fallback,
     ignore_merges |-> m.ignore_merges,
     vocab |-> OrderedVocab(m.vocab),
     merges |-> Rekey(m.merges, PairStr),
     splits |-> Rekey(m.splits, LAMBDA token_id : m.vocab[token_id + 1])]

\* the HashMap<String, u32> read from the "vocab" object: a later entry of a
\* token replaces an earlier one
VocabOf(entries) ==
    [tok \in {entries[i][1] : i \in 1..Len(entries)} |->
        entries[CHOOSE i \in 1..Len(entries) :
                    entries[i][1] = tok /\ \A j \in (i + 1)..Len(entries) : entries[j][1] # tok][2]]

\* the Vec of this module for a vocab whose ids are 0..n-1
VocabVec(vocab) ==
    [i \in 1..Cardinality(DOMAIN vocab) |-> CHOOSE tok \in DOMAIN vocab : vocab[tok] = i - 1]

\* the three flags read with one setter for two of them
WithFlagsSlip(builder, d) ==
    [builder EXCEPT !.fuse_unk = d.fuse_unk,
                    !.byte_fallback = d.ignore_merges,
                    !.ignore_merges = d.ignore_merges]

\* visit_map, lines 112-126: fuse_unk, byte_fallback and ignore_merges
WithFlags(builder, d) ==
    [builder EXCEPT !.fuse_unk = d.fuse_unk,
                    !.byte_fallback = d.byte_fallback,
                    !.ignore_merges = d.ignore_merges]

\* visit_map, lines 97-111: the optional strings
WithStrings(builder, d) ==
    [builder EXCEPT !.unk_token = d.unk_token,
                    !.continuing_subword_prefix = d.continuing_subword_prefix,
                    !.end_of_word_suffix = d.end_of_word_suffix]

\* PBPEVisitor::visit_map: <<>> for an error, <<model>> otherwise
Deserialize(d) ==
    LET vocab == VocabOf(d.vocab)
    IN  IF d.type # "PBPE" THEN <<>>
        ELSE IF \E token_str \in DOMAIN d.splits : token_str \notin DOMAIN vocab THEN <<>>
        ELSE <<[WithFlags(WithStrings(DefaultModel, d), d) EXCEPT
                  !.vocab = VocabVec(vocab),
                  !.merges = Rekey(d.merges, ParsePair),
                  !.splits = Rekey(d.splits, LAMBDA token_str : vocab[token_str])]>>

-----------------------------------------------------------------------------
(* Bounds and input domains *)

\* the greatest count of a word in word_counts
MaxCount == 2

\* the main loop is followed for at most this many logged events
MaxEvents == 9

\* the greatest length of a sequence given to tokenize that is no word of the pool
MaxInputLen == 2

\* the greatest sum of the counts of word_counts
MaxTotal == 3

\* the greatest length of a sequence given to a hand-built model without a cache
MaxSeqLen == 3

\* the greatest cache_capacity of a hand-built model
MaxCapacity == 2

\* the greatest number of symbols of a Word whose method is called on its own
MaxWordLen == 4

\* word_counts over the words of `pool`: a count 0..MaxCount for each word,
\* MaxTotal at most in all; the words of count 0 are left out
CorporaOf(pool) ==
    { SelectSeq([i \in 1..Len(pool) |-> [word |-> pool[i], count |-> cv[i]]],
                LAMBDA e : e.count > 0) :
      cv \in { f \in [1..Len(pool) -> 0..MaxCount] : SumSeq(f) \in 1..MaxTotal } }

\* the words a training corpus is drawn from: a = 97, b = 98, e-acute = 233 (two
\* bytes)
Pool == << <<97, 98>>, <<97, 98, 233>>, <<98, 233>>, <<97, 98, 97, 98>>,
           <<233, 97, 98>> >>

Corpora == CorporaOf(Pool)

\* the words of the corpora whose models are given words to tokenize: short
\* words, and words with a doubled letter
ReplayPool == << <<97, 98>>, <<97, 98, 233>>, <<98, 98>> >>

DoubledPool == << <<97, 98, 98, 98>>, <<233, 97, 98, 98>>, <<98, 98>> >>

ReplayCorpora == CorporaOf(ReplayPool) \cup CorporaOf(DoubledPool)

Config(tau, min_frequency, vocab_size, affix) ==
    [tau |-> tau, min_frequency |-> min_frequency, vocab_size |-> vocab_size,
     special_tokens |-> <<>>, limit_alphabet |-> -1, initial_alphabet |-> {},
     prefix |-> affix[1], suffix |-> affix[2], max_token_length |-> -1]

\* no affixes, or continuing_subword_prefix "#" and end_of_word_suffix "$"
Affixes == { <<<<>>, <<>>>>, <<<<35>>, <<36>>>> }

Taus == { <<1, 2>>, <<1, 1>> }

Configs == { Config(tau, mf, 30, af) : tau \in Taus, mf \in {0, 2}, af \in Affixes }

\* trainings that reach the target size: vocab_size 4 or 5 over an alphabet of 2 or
\* 3 characters
VocabConfigs == { Config(tau, 0, vs, <<<<>>, <<>>>>) : tau \in Taus, vs \in {4, 5} }

\* trainings with max_token_length = Some(1), Some(2) or Some(3)
LengthConfigs ==
    { [Config(tau, 0, 30, <<<<>>, <<>>>>) EXCEPT !.max_token_length = l] :
        tau \in Taus, l \in {1, 2, 3} }

\* trainings with an initial_alphabet of c, or of a and c, and limit_alphabet =
\* Some(1), Some(2) or Some(3)
AlphabetConfigs ==
    { [Config(<<1, 1>>, 0, 30, <<<<>>, <<>>>>) EXCEPT !.initial_alphabet = ia,
                                                       !.limit_alphabet = la] :
        ia \in {{99}, {97, 99}}, la \in {1, 2, 3} }

\* trainings with the special token "ab", which is also what a merge of a and b
\* yields
SpecialConfigs ==
    { [Config(tau, 0, 30, <<<<>>, <<>>>>) EXCEPT !.special_tokens = << <<97, 98>> >>] :
        tau \in Taus }

-----------------------------------------------------------------------------
(* The state machine *)

\* no Word method called on its own
NoCall == [method |-> "none"]

TrainerState ==
    [id_to_word |-> id_to_word, atomic_size |-> atomic_size, words |-> words,
     counts |-> counts, pair_counts |-> pair_counts, queue |-> queue,
     id_active |-> id_active, parents |-> parents,
     actual_vocab_size |-> actual_vocab_size,
     count_merged_tokens |-> count_merged_tokens, merges |-> merges, splits |-> splits,
     events |-> events, split_ctx |-> split_ctx, last_pop |-> last_pop,
     changes |-> <<>>, where_to_update |-> EmptyMap, pc |-> pc]

SetTrainer(s) ==
    /\ id_to_word' = s.id_to_word
    /\ atomic_size' = s.atomic_size
    /\ words' = s.words
    /\ counts' = s.counts
    /\ pair_counts' = s.pair_counts
    /\ queue' = s.queue
    /\ id_active' = s.id_active
    /\ parents' = s.parents
    /\ actual_vocab_size' = s.actual_vocab_size
    /\ count_merged_tokens' = s.count_merged_tokens
    /\ merges' = s.merges
    /\ splits' = s.splits
    /\ events' = s.events
    /\ split_ctx' = s.split_ctx
    /\ last_pop' = s.last_pop
    /\ pc' = s.pc

InitWith(configs, corpora) ==
    /\ cfg \in configs
    /\ word_counts \in corpora
    /\ \E s \in {TrainStart(cfg, word_counts, kept) : kept \in KeptSets(cfg, word_counts)} :
             /\ id_to_word = s.id_to_word
             /\ atomic_size = s.atomic_size
             /\ words = s.words
             /\ counts = s.counts
             /\ pair_counts = s.pair_counts
             /\ queue = s.queue
             /\ id_active = s.id_active
             /\ parents = s.parents
             /\ actual_vocab_size = s.actual_vocab_size
             /\ count_merged_tokens = s.count_merged_tokens
             /\ merges = s.merges
             /\ splits = s.splits
             /\ events = s.events
             /\ split_ctx = s.split_ctx
             /\ last_pop = s.last_pop
             /\ pc = s.pc
    /\ merges_map = EmptyMap
    /\ splits_map = EmptyMap
    /\ input = <<>>
    /\ symbols = <<>>
    /\ heap = EmptyMap
    /\ model = DefaultModel
    /\ cache = EmptyMap
    /\ tokens = <<>>
    /\ cache_hit = FALSE
    /\ data = <<>>
    /\ restored = <<>>
    /\ call = NoCall
    /\ ret = <<>>

Init ==
    InitWith(Configs \cup VocabConfigs \cup LengthConfigs \cup AlphabetConfigs
             \cup SpecialConfigs, Corpora)

\* words in which the token of b and e-acute stands first, or after a, or after
\* e-acute, each with a count 0..MaxCount
RetractPool == << <<98, 233>>, <<97, 98, 233>>, <<233, 98, 233>> >>

RetractCorpora ==
    { SelectSeq([i \in 1..Len(RetractPool) |-> [word |-> RetractPool[i], count |-> cv[i]]],
                LAMBDA e : e.count > 0) :
      cv \in { f \in [1..Len(RetractPool) -> 0..MaxCount] : SumSeq(f) >= 1 } }

InitRetract == InitWith(Configs \cup SpecialConfigs, RetractCorpora)

\* words over five characters (c = 99, d = 100, e = 101) in which a string is built
\* by two different pairs: abc is ab + c and a + bc
ChainPool == << <<97, 98, 99, 100>>, <<97, 98, 99>>, <<99, 100, 101>> >>

InitChain == InitWith(Configs, CorporaOf(ChainPool))

\* the trainings whose models are given words to tokenize: those of min_frequency 0
ReplayConfigs == { c \in Configs : c.min_frequency = 0 }

InitReplay == InitWith(ReplayConfigs, ReplayCorpora)

\* the loop of do_train goes on: lines 556-562
LoopGoesOn == actual_vocab_size < cfg.vocab_size /\ DOMAIN queue # {}

\* one iteration of the main loop of do_train
TrainStep ==
    /\ pc = "train"
    /\ LoopGoesOn
    /\ \E pair \in QueueTops(queue) :
          LET s == Iteration(TrainerState, cfg, pair)
          IN  Len(s.events) <= MaxEvents /\ SetTrainer(s)
    /\ UNCHANGED <<cfg, word_counts, modelVars, tokVars, encVars, serVars, callVars>>

\* the loop ends and do_train fills the model in
Finalize ==
    /\ pc = "train"
    /\ ~LoopGoesOn
    /\ LET maps == BuildMaps(events, merges, splits)
       IN  /\ merges_map' = maps.merges_map
           /\ splits_map' = maps.splits_map
           /\ model' = [model EXCEPT !.vocab = id_to_word,
                                      !.merges = maps.merges_map,
                                      !.splits = maps.splits_map,
                                      !.continuing_subword_prefix = cfg.prefix,
                                      !.end_of_word_suffix = cfg.suffix]
    /\ pc' = "model"
    /\ UNCHANGED <<trainVars, tokVars, cache, tokens, cache_hit, serVars, callVars>>

\* words given to tokenize besides those of the pool
Probes == { <<97, 98, 98, 97>>, <<97, 98, 97, 98>>, <<233, 97, 98>>, <<97, 98, 233, 97>> }

\* the sequences given to tokenize: the words of the pool, the probes and the short
\* sequences, over the characters of the corpus
Inputs ==
    LET chars == UNION {Range(word_counts[i].word) : i \in 1..Len(word_counts)}
    IN  {w \in Range(ReplayPool) \cup Range(DoubledPool) \cup Probes : Range(w) \subseteq chars}
        \cup UNION {[1..n -> chars] : n \in 1..MaxInputLen}

\* merge_split_all from a heap h on: the loop ends on an empty heap, the word is
\* compacted (line 455) and tokenize returns
AfterPop(sequence, w, h) ==
    /\ symbols' = IF DOMAIN h = {} THEN Retain(w) ELSE w
    /\ heap' = h
    /\ pc' = IF DOMAIN h = {} THEN "done" ELSE "replay"
    /\ IF DOMAIN h = {}
       THEN /\ tokens' = word_to_tokens(model, Retain(w))
            /\ cache' \in CacheStore(model, cache, sequence, Retain(w))
       ELSE UNCHANGED <<cache, tokens>>
    /\ cache_hit' = FALSE

\* PBPE::tokenize on the trained model, up to the first pop of merge_split_all
Tokenize ==
    /\ pc = "model"
    /\ \E w \in Inputs :
         LET iw == InitialWord(TrainedModel, w)
         IN  /\ input' = w
             /\ IF iw.err
                THEN /\ symbols' = <<>> /\ heap' = EmptyMap /\ pc' = "error"
                     /\ UNCHANGED <<cache, tokens, cache_hit>>
                ELSE AfterPop(w, iw.symbols, SeedHeap(iw.symbols, merges_map))
    /\ UNCHANGED <<trainVars, modelVars, model, serVars, callVars>>

\* merge_split_all pops one event and handles it
ReplayStep ==
    /\ pc = "replay"
    /\ \E event \in HeapTops(heap) :
         LET r == ProcessEvent(symbols, HeapRemove(heap, event), merges_map, splits_map, event)
         IN  AfterPop(input, r.symbols, r.heap)
    /\ UNCHANGED <<trainVars, modelVars, input, model, serVars, callVars>>

\* the characters of the sequences given to a hand-built model: a, c, e-acute (two
\* bytes, C3 A9)
EncodeChars == {97, 99, 233}

\* sequences with b given to a hand-built model: accb, b, cb, ab, bac, acb
EncodeProbes ==
    { <<97, 99, 99, 98>>, <<98>>, <<99, 98>>, <<97, 98>>, <<98, 97, 99>>, <<97, 99, 98>> }

\* the unk_token "?"
Unk == <<63>>

\* vocab, merges and splits of the hand-built models, with the affixes the vocab
\* is written for
Tables(vocab, merges_of, affix) ==
    [vocab |-> vocab, merges |-> merges_of, splits |-> EmptyMap,
     prefix |-> affix[1], suffix |-> affix[2]]

\* (a, b) -> ab at rank 0, where ab has id 2
MergeAB == Put(EmptyMap, <<0, 1>>, <<<<0, 2>>>>)

EncodeTables ==
    { Tables(<<Unk, <<97>>, <<98>>>>, EmptyMap, <<<<>>, <<>>>>),
      Tables(<<Unk, <<97>>, ByteToken(195), ByteToken(169)>>, EmptyMap, <<<<>>, <<>>>>),
      Tables(<<Unk, ByteToken(97), ByteToken(195)>>, EmptyMap, <<<<>>, <<>>>>),
      Tables(<<<<97>>, <<98>>, ByteToken(195), ByteToken(169)>>, EmptyMap, <<<<>>, <<>>>>),
      Tables(<<<<97>>, <<98>>, <<97, 98>>, Unk>>, MergeAB, <<<<>>, <<>>>>),
      Tables(<<<<97>>, <<98>>, <<97, 98>>, <<99, 98>>>>, MergeAB, <<<<>>, <<>>>>),
      Tables(<<Unk, <<97>>, <<97, 36>>, <<35, 97, 36>>, <<35, 99>>, <<35, 98, 36>>>>, EmptyMap,
             <<<<35>>, <<36>>>>),
      Tables(<<Unk, <<97>>, ByteToken(35), ByteToken(195), ByteToken(169)>>, EmptyMap,
             <<<<35>>, <<>>>>) }

\* PbpeBuilder with every option chosen
EncodeModels ==
    { [vocab |-> t.vocab, merges |-> t.merges, splits |-> t.splits,
       cache_capacity |-> cap, unk_token |-> unk,
       continuing_subword_prefix |-> t.prefix, end_of_word_suffix |-> t.suffix,
       fuse_unk |-> fuse, byte_fallback |-> fallback, ignore_merges |-> ignore] :
      t \in EncodeTables, cap \in 0..MaxCapacity, unk \in {<<>>, Unk},
      fuse \in BOOLEAN, fallback \in BOOLEAN, ignore \in BOOLEAN }

\* the sequences given to a model that has a cache
CachedInputs == { <<97>>, <<99>>, <<97, 98>>, <<99, 98>>, <<97, 99, 98>>, <<233, 97>> }

\* the sequences given to tokenize
EncodeInputs(m) ==
    IF m.cache_capacity = 0
    THEN UNION {[1..n -> EncodeChars] : n \in 0..MaxSeqLen} \cup EncodeProbes
    ELSE CachedInputs

\* a trainer that was not run
Untrained == TrainStart(Config(<<1, 1>>, 0, 0, <<<<>>, <<>>>>), <<>>, {})

\* a trainer that was not run and a model out of PbpeBuilder::build, its cache empty
Idle(models) ==
    /\ cfg = Config(<<1, 1>>, 0, 0, <<<<>>, <<>>>>)
    /\ word_counts = <<>>
    /\ id_to_word = Untrained.id_to_word
    /\ atomic_size = Untrained.atomic_size
    /\ words = Untrained.words
    /\ counts = Untrained.counts
    /\ pair_counts = Untrained.pair_counts
    /\ queue = Untrained.queue
    /\ id_active = Untrained.id_active
    /\ parents = Untrained.parents
    /\ actual_vocab_size = Untrained.actual_vocab_size
    /\ count_merged_tokens = Untrained.count_merged_tokens
    /\ merges = Untrained.merges
    /\ splits = Untrained.splits
    /\ events = Untrained.events
    /\ split_ctx = Untrained.split_ctx
    /\ last_pop = Untrained.last_pop
    /\ merges_map = EmptyMap
    /\ splits_map = EmptyMap
    /\ input = <<>>
    /\ symbols = <<>>
    /\ heap = EmptyMap
    /\ model \in models
    /\ cache = EmptyMap
    /\ tokens = <<>>
    /\ cache_hit = FALSE
    /\ data = <<>>
    /\ restored = <<>>

InitModels(models) ==
    /\ Idle(models)
    /\ pc = "model"
    /\ call = NoCall
    /\ ret = <<>>

InitEncode == InitModels(EncodeModels)

\* one call of PBPE::tokenize, from its entry to its return
Encode ==
    /\ pc \in {"model", "done", "error"}
    /\ \E sequence \in EncodeInputs(model) :
         \E r \in tokenize(model, cache, sequence) :
            /\ input' = sequence
            /\ tokens' = r.tokens
            /\ cache' = r.cache
            /\ cache_hit' = r.hit
            /\ pc' = IF r.err THEN "error" ELSE "done"
    /\ UNCHANGED <<trainVars, modelVars, symbols, heap, model, serVars, callVars>>

\* PBPE::clear_cache
ClearCache ==
    /\ pc \in {"model", "done", "error"}
    /\ cache' = IF model.cache_capacity = 0 THEN cache ELSE CacheClear(cache)
    /\ UNCHANGED <<trainVars, pc, modelVars, tokVars, model, tokens, cache_hit, serVars, callVars>>

\* the vocab of the serialization test, with its merge and its split, the same with
\* a space in the tokens, and a vocab of thirteen tokens whose last ids take two
\* digits
SerdeTables ==
    { [Tables(<<Unk, <<97>>, <<98>>, <<97, 98>>>>, Put(EmptyMap, <<1, 2>>, <<<<0, 3>>>>),
              <<<<>>, <<>>>>)
          EXCEPT !.splits = Put(EmptyMap, 3, <<<<1, <<1, 2>>>>>>)],
      [Tables(<<Unk, <<97>>, <<98, 32, 99>>, <<97, 98, 32, 99>>>>,
              Put(EmptyMap, <<1, 2>>, <<<<0, 3>>>>), <<<<35>>, <<36>>>>)
          EXCEPT !.splits = Put(EmptyMap, 3, <<<<1, <<1, 2>>>>>>)],
      [Tables([i \in 1..13 |-> IF i = 12 THEN <<97, 98>> ELSE IF i = 13 THEN <<98, 97, 98>>
                                ELSE <<96 + i>>],
              Put(Put(EmptyMap, <<0, 1>>, <<<<0, 11>>, <<3, 11>>>>), <<1, 11>>, <<<<1, 12>>>>),
              <<<<>>, <<>>>>)
          EXCEPT !.splits = Put(Put(EmptyMap, 11, <<<<2, <<0, 1>>>>>>), 12, <<<<4, <<1, 0, 1>>>>>>)] }

\* the models that are written out and read back
SerdeModels ==
    { [vocab |-> t.vocab, merges |-> t.merges, splits |-> t.splits,
       cache_capacity |-> cap, unk_token |-> unk,
       continuing_subword_prefix |-> t.prefix, end_of_word_suffix |-> t.suffix,
       fuse_unk |-> fuse, byte_fallback |-> fallback, ignore_merges |-> ignore] :
      t \in EncodeTables \cup SerdeTables, cap \in {0, MaxCapacity}, unk \in {<<>>, Unk},
      fuse \in BOOLEAN, fallback \in BOOLEAN, ignore \in BOOLEAN }

InitSerde == InitModels(SerdeModels)

\* serde_json::to_string(&pbpe)
Save ==
    /\ pc = "model"
    /\ data' = <<Serialize(model)>>
    /\ pc' = "saved"
    /\ UNCHANGED <<trainVars, modelVars, tokVars, encVars, restored, callVars>>

\* serde_json::from_str(&data)
Load ==
    /\ pc = "saved"
    /\ restored' = Deserialize(data[1])
    /\ pc' = IF restored' = <<>> THEN "error" ELSE "loaded"
    /\ UNCHANGED <<trainVars, modelVars, tokVars, encVars, data, callVars>>

\* the Word that Word::add builds from the (c, len) of its symbols
WordOf(cl) == AddSymbols(<<>>, cl)

\* Word::merge called as do_train calls it: c1, c2 in {0, 1}, the replacement 2 is
\* the id of the joined token, which is neither c1 nor c2 but may stand in the word
\* already; max_length is usize::MAX, 3 or 4
MergeCalls(max) ==
    { [method |-> "merge", word |-> WordOf(cl), c1 |-> c1, c2 |-> c2, replacement |-> 2,
       max_length |-> ml] :
      cl \in UNION {[1..n -> {0, 1, 2} \X {1, 2}] : n \in 0..max},
      c1 \in {0, 1}, c2 \in {0, 1}, ml \in {-1, 3, 4} }

InitMerge ==
    /\ Idle({DefaultModel})
    /\ pc = "call"
    /\ call \in MergeCalls(MaxWordLen)
    /\ ret = <<>>

\* Word::merge, from its entry to its return
CallMerge ==
    /\ pc = "call"
    /\ call.method = "merge"
    /\ ret' = <<WordMerge(call.word, call.c1, call.c2, call.replacement, call.max_length)>>
    /\ pc' = "returned"
    /\ UNCHANGED <<trainVars, modelVars, tokVars, encVars, serVars, call>>

\* Word::remove called as do_train calls it: the removed token 3 is a merge-produced
\* id, the split is its expansion over the ids 0 and 1; max_length is usize::MAX, 3
\* or 4
RemoveCalls(max) ==
    { [method |-> "remove", word |-> WordOf(cl), removed_token |-> 3, split |-> sp,
       max_length |-> ml] :
      cl \in UNION {[1..n -> {0, 1, 3} \X {1, 2}] : n \in 0..max},
      sp \in {<<0, 1>>, <<1, 1>>, <<0, 1, 0>>}, ml \in {-1, 3, 4} }

InitRemove ==
    /\ Idle({DefaultModel})
    /\ pc = "call"
    /\ call \in RemoveCalls(MaxWordLen)
    /\ ret = <<>>

\* Word::remove, from its entry to its return
CallRemove ==
    /\ pc = "call"
    /\ call.method = "remove"
    /\ ret' = <<WordRemove(call.word, call.removed_token, call.split, call.max_length)>>
    /\ pc' = "returned"
    /\ UNCHANGED <<trainVars, modelVars, tokVars, encVars, serVars, call>>

\* the tables of merge_split_all built from a log of events: Merge of a pair to an
\* id, or Split of an id to its expansion
TablesOf(log) ==
    LET mgs == SelectSeq(log, LAMBDA e : e[1] = "Merge")
        spl == SelectSeq(log, LAMBDA e : e[1] = "Split")
        evs == [k \in 1..Len(log) |->
                  <<log[k][1],
                    Cardinality({j \in 1..(k - 1) : log[j][1] = log[k][1]})>>]
    IN  BuildMaps(evs, [k \in 1..Len(mgs) |-> <<mgs[k][2], mgs[k][3]>>],
                  [k \in 1..Len(spl) |-> <<spl[k][2], spl[k][3]>>])

MaxLogLen == 4

\* logs over the ids a = 0, b = 1, c = 2, ab = 3, abc = 4, bc = 7
EventLogs ==
    LET steps == { <<"Merge", <<0, 1>>, 3>>, <<"Merge", <<3, 2>>, 4>>,
                   <<"Merge", <<1, 2>>, 7>>, <<"Split", 3, <<0, 1>>>>,
                   <<"Split", 3, <<>>>> }
    IN  UNION {[1..n -> steps] : n \in 1..MaxLogLen}

\* merge_split_all called as test_merge_split_all calls it, on a Word of atomic
\* ids of len 1 with hand-built tables
EventCalls(max) ==
    { [method |-> "merge_split_all", word |-> WordOf([k \in 1..Len(cs) |-> <<cs[k], 1>>]),
       merges |-> TablesOf(log).merges_map, splits |-> TablesOf(log).splits_map] :
      cs \in UNION {[1..n -> {0, 1, 2}] : n \in 1..max}, log \in EventLogs }

\* the greatest number of symbols of a Word given to merge_split_all with
\* hand-built tables
MaxEventWord == 3

InitEvents ==
    /\ Idle({DefaultModel})
    /\ pc = "call"
    /\ call \in EventCalls(MaxEventWord)
    /\ ret = <<>>

\* merge_split_all from a heap h on: the loop ends on an empty heap, the word is
\* compacted (line 455) and the call returns
AfterTurn(w, h) ==
    /\ symbols' = IF DOMAIN h = {} THEN Retain(w) ELSE w
    /\ heap' = h
    /\ pc' = IF DOMAIN h = {} THEN "returned" ELSE "turn"
    /\ ret' = IF DOMAIN h = {} THEN <<Retain(w)>> ELSE ret

\* Word::merge_split_all, up to the first pop
CallEvents ==
    /\ pc = "call"
    /\ call.method = "merge_split_all"
    /\ AfterTurn(call.word, SeedHeap(call.word, call.merges))
    /\ UNCHANGED <<trainVars, modelVars, input, encVars, serVars, call>>

\* line 449: `event.pos + event.split.len() - 1` is computed in usize, so it
\* overflows for an applied Split with an empty expansion at pos 0 when a symbol
\* follows (the test of line 448)
SubtractOverflows(w, sm, event) ==
    /\ event.kind = "Split"
    /\ SplitApplies(w, sm, event)
    /\ event.pos + Len(event.split) < Len(w)
    /\ event.pos + Len(event.split) = 0

\* one turn of the loop of merge_split_all; an overflowing subtraction wraps in a
\* build without overflow checks (ApplySplit then writes prev = -1) and panics in
\* a build with them
TurnEvents ==
    /\ pc = "turn"
    /\ \E event \in HeapTops(heap) :
         \/ LET r == ProcessEvent(symbols, HeapRemove(heap, event), call.merges, call.splits,
                                  event)
            IN  AfterTurn(r.symbols, r.heap)
         \/ /\ SubtractOverflows(symbols, call.splits, event)
            /\ pc' = "panicked"
            /\ heap' = HeapRemove(heap, event)
            /\ UNCHANGED <<symbols, ret>>
    /\ UNCHANGED <<trainVars, modelVars, input, encVars, serVars, call>>

NextTrain == TrainStep \/ Finalize

NextEncode == Encode \/ ClearCache

NextSerde == Save \/ Load

Next == TrainStep \/ Finalize \/ Tokenize \/ ReplayStep

\* do_train alone
SpecTrain == Init /\ [][NextTrain]_vars

\* do_train, then tokenize on the trained model
Spec == InitReplay /\ [][Next]_vars

\* tokenize and clear_cache calls on a hand-built model
SpecEncode == InitEncode /\ [][NextEncode]_vars

\* a hand-built model written out and read back
SpecSerde == InitSerde /\ [][NextSerde]_vars

\* Word::merge called on a Word of its own
SpecMerge == InitMerge /\ [][CallMerge]_vars

\* Word::remove called on a Word of its own
SpecRemove == InitRemove /\ [][CallRemove]_vars

NextEvents == CallEvents \/ TurnEvents

\* do_train on the corpora of RetractPool
SpecRetract == InitRetract /\ [][NextTrain]_vars

\* do_train over the corpora of ChainPool
SpecChain == InitChain /\ [][NextTrain]_vars

\* Word::merge_split_all called on a Word of its own
SpecEvents == InitEvents /\ [][NextEvents]_vars

\* the same, with the loop of merge_split_all running on: it is sequential code
\* that nothing else can hold up
SpecEventsFair == SpecEvents /\ WF_vars(NextEvents)

-----------------------------------------------------------------------------
(* Properties *)

\* the indices of word_counts that hold the sequence being tokenized
CorpusIndices == {i \in 1..Len(word_counts) : word_counts[i].word = input}

\* C1: for every word of the training corpus, merge_split_all on the word's
\* initial symbols with the trained merges and splits yields the id sequence that
\* the trainer's own Word for that word holds when training ends.
ReplayReproducesTraining ==
    pc = "done" => \A i \in CorpusIndices : get_chars(symbols) = get_chars(words[i])

\* C2: merge_split_all pops the smallest rank first: an event that is popped has
\* a rank no greater than the rank of any event pending in the heap with it.
PopsSmallestRank ==
    pc = "replay" => \A e \in HeapTops(heap) : \A f \in DOMAIN heap : e.rank <= f.rank

\* C3: among the pending events of one rank the one at the smaller position is
\* popped first, and at the same rank and position a Merge before a Split.
PopsSmallestPos ==
    pc = "replay" =>
        \A e \in HeapTops(heap) : \A f \in DOMAIN heap :
            e.rank = f.rank =>
                /\ e.pos <= f.pos
                /\ e.pos = f.pos => ~(e.kind = "Split" /\ f.kind = "Merge")

\* the vocabulary string of the k-th character of w: lines 269-280 of model.rs
CharForm(w, k) ==
    LET s1 == IF k # 1 THEN cfg.prefix \o <<w[k]>> ELSE <<w[k]>>
    IN  IF k = Len(w) THEN s1 \o cfg.suffix ELSE s1

\* every character of w has a vocabulary entry
Covered(w) == \A k \in 1..Len(w) : Contains(id_to_word, CharForm(w, k))

\* vocab_r[id] of the i-th token of w, without the continuing-subword prefix of a
\* token that is not the first and the end-of-word suffix of the last one
TokenText(w, i) ==
    LET s  == id_to_word[w[i].c + 1]
        s1 == IF i # 1 /\ StartsWith(s, cfg.prefix)
              THEN SubSeq(s, Len(cfg.prefix) + 1, Len(s)) ELSE s
    IN  IF i = Len(w) /\ EndsWith(s1, cfg.suffix)
        THEN SubSeq(s1, 1, Len(s1) - Len(cfg.suffix)) ELSE s1

Decode(w) == Concat([i \in 1..Len(w) |-> TokenText(w, i)])

\* C4: for a word whose characters all have vocabulary entries, the strings of
\* the tokens of tokenize(w), concatenated in order without prefix and suffix,
\* give w back.
DecodeRoundTrip ==
    (pc = "done" /\ Covered(input)) => Decode(symbols) = input

\* the end of the last offset: the sum of the lengths of the tokens
LastEnd(w) == IF w = <<>> THEN 0 ELSE get_offsets(w)[Len(w)][2]

\* C5: the offsets of the tokens of tokenize(w) tile the input: the first starts
\* at 0, each starts where the one before ends, the last ends at byte_length(w).
OffsetsTile ==
    (pc = "done" /\ Covered(input)) =>
        LET o == get_offsets(symbols)
        IN  /\ \A i \in 1..Len(o) : o[i][1] = IF i = 1 THEN 0 ELSE o[i - 1][2]
            /\ LastEnd(symbols) = Len(Bytes(input))

\* C6: tokenize on a trained model emits no token that was inactive when
\* training ended.
NoInactiveEmitted ==
    pc = "done" =>
        \A i \in 1..Len(symbols) :
            symbols[i].c < atomic_size \/ id_active[symbols[i].c - atomic_size + 1] = 1

\* the entries of the model's tables: <<key, place in the bucket>>
MergeEntries == UNION {{<<p, k>> : k \in 1..Len(merges_map[p])} : p \in DOMAIN merges_map}

SplitEntries == UNION {{<<id, k>> : k \in 1..Len(splits_map[id])} : id \in DOMAIN splits_map}

\* the number of entries of both tables that carry rank r
RankCount(r) ==
    Cardinality({e \in MergeEntries : merges_map[e[1]][e[2]][1] = r})
    + Cardinality({e \in SplitEntries : splits_map[e[1]][e[2]][1] = r})

\* the entry of rank r is the r-th event that training emitted
RankIsEmissionOrder(r) ==
    LET index == events[r + 1][2]
    IN  IF events[r + 1][1] = "Merge"
        THEN /\ merges[index + 1][1] \in DOMAIN merges_map
             /\ <<r, merges[index + 1][2]>> \in Range(merges_map[merges[index + 1][1]])
        ELSE /\ splits[index + 1][1] \in DOMAIN splits_map
             /\ <<r, splits[index + 1][2]>> \in Range(splits_map[splits[index + 1][1]])

StrictlyIncreasing(vec) == \A k \in 1..(Len(vec) - 1) : vec[k][1] < vec[k + 1][1]

\* C7: in the model that do_train produces every rank is carried by exactly one
\* entry of the merges and splits tables together, the ranks are 0..N-1 in the
\* order of emission, and they increase strictly inside every bucket.
RanksUniqueOrdered ==
    pc = "model" =>
        /\ Cardinality(MergeEntries) + Cardinality(SplitEntries) = Len(events)
        /\ \A r \in 0..(Len(events) - 1) : RankCount(r) = 1 /\ RankIsEmissionOrder(r)
        /\ \A p \in DOMAIN merges_map : StrictlyIncreasing(merges_map[p])
        /\ \A id \in DOMAIN splits_map : StrictlyIncreasing(splits_map[id])

\* a model with a split and with a pair that was merged twice
RanksWitness ==
    /\ pc = "model"
    /\ splits_map # EmptyMap
    /\ \E p \in DOMAIN merges_map : Len(merges_map[p]) >= 2

\* id is atomic, or active in the id_active `active`
Usable(id, active) == id < atomic_size \/ active[id - atomic_size + 1] = 1

\* C8: split(t) is [t] for an atomic or active t and the expansions of t's two
\* parents, concatenated, for any other; every Split event's expansion holds only
\* ids that are atomic or active when it is emitted, not the retracted id, and
\* at least two ids.
SplitExpansionsValid ==
    /\ \A t \in 0..(Len(id_to_word) - 1) :
          split(t, parents, id_active, atomic_size) =
              IF Usable(t, id_active) THEN <<t>>
              ELSE split(parents[t - atomic_size + 1][1], parents, id_active, atomic_size)
                   \o split(parents[t - atomic_size + 1][2], parents, id_active, atomic_size)
    /\ \A k \in 1..Len(splits) :
          /\ \A id \in Range(splits[k][2]) : Usable(id, split_ctx[k])
          /\ splits[k][1] \notin Range(splits[k][2])
          /\ Len(splits[k][2]) >= 2

\* a Split event whose expansion went through an inactive parent
SplitWitness ==
    \E k \in 1..Len(splits) :
        LET pr == parents[splits[k][1] - atomic_size + 1]
        IN  ~Usable(pr[1], split_ctx[k]) \/ ~Usable(pr[2], split_ctx[k])

\* C9: no Split event that training emits has an atomic id as its subject.
NoAtomicSplit == \A k \in 1..Len(splits) : splits[k][1] >= atomic_size

\* a retraction was held back for an atomic parent: the pair just merged has an
\* atomic parent and a merge-produced one that was retracted
AtomicSplitWitness ==
    /\ last_pop.kind = "merge"
    /\ \E i \in {1, 2} :
          /\ last_pop.pair[i] < atomic_size
          /\ last_pop.pair[3 - i] >= atomic_size
          /\ splits # <<>> /\ splits[Len(splits)][1] = last_pop.pair[3 - i]

\* the order of pairs: numerically lesser first
PairLeq(p, q) == p[1] < q[1] \/ (p[1] = q[1] /\ p[2] <= q[2])

LeastPair(S) == CHOOSE p \in S : \A q \in S : PairLeq(p, q)

RECURSIVE LesserPairRun(_)
\* the run of do_train's loop from s in which every pop takes the numerically
\* lesser of the pairs of highest priority
LesserPairRun(s) ==
    IF s.pc # "train" \/ ~(s.actual_vocab_size < cfg.vocab_size /\ DOMAIN s.queue # {})
    THEN s
    ELSE LET n == Iteration(s, cfg, LeastPair(QueueTops(s.queue)))
         IN  IF Len(n.events) > MaxEvents THEN s ELSE LesserPairRun(n)

\* C10: training is deterministic: a run of do_train on word_counts and the
\* configuration ends with the vocab, merges and splits of the run on the same
\* input that pops the numerically lesser pair at every tie.
TrainingDeterministic ==
    pc = "model" =>
        LET kept == CHOOSE k \in KeptSets(cfg, word_counts) : TRUE
            r    == LesserPairRun(TrainStart(cfg, word_counts, kept))
            maps == BuildMaps(r.events, r.merges, r.splits)
        IN  (r.pc = "train" /\ ~(r.actual_vocab_size < cfg.vocab_size /\ DOMAIN r.queue # {})) =>
                /\ id_to_word = r.id_to_word
                /\ merges_map = maps.merges_map
                /\ splits_map = maps.splits_map

\* C11: when do_train returns, the model's vocab has at most
\* max(vocab_size, number of atomic entries) entries.
VocabWithinTarget ==
    pc = "model" =>
        Len(id_to_word) <= (IF cfg.vocab_size > atomic_size THEN cfg.vocab_size
                            ELSE atomic_size)

\* C12: after do_train with max_token_length = L and no prefix or suffix, every
\* token string of the model's vocabulary has at most L characters.
TokensWithinMaxLength ==
    (pc = "model" /\ cfg.max_token_length # -1 /\ cfg.prefix = <<>> /\ cfg.suffix = <<>>) =>
        \A i \in 1..Len(id_to_word) : Len(id_to_word[i]) <= cfg.max_token_length

-----------------------------------------------------------------------------
(* tokenize on hand-built models *)

\* the string merge_word looks up for the k-th character of w
Surface(m, w, k) ==
    (IF k # 1 THEN m.continuing_subword_prefix ELSE <<>>) \o <<w[k]>>
    \o (IF k = Len(w) THEN m.end_of_word_suffix ELSE <<>>)

\* the k-th character of w has a vocab entry
Known(m, w, k) == Contains(m.vocab, Surface(m, w, k))

\* the k-th character of w has no vocab entry, and every byte of it has one
Fallback(m, w, k) ==
    /\ ~Known(m, w, k)
    /\ m.byte_fallback
    /\ \A b \in Range(Bytes(Surface(m, w, k))) : Contains(m.vocab, ByteToken(b))

\* the k-th character of w is left to the unk_token
Unknown(m, w, k) == ~Known(m, w, k) /\ ~Fallback(m, w, k)

\* some character is left to an unk_token that is configured and not in the vocab
UnkMissing(m, w) ==
    /\ \E k \in 1..Len(w) : Unknown(m, w, k)
    /\ m.unk_token # <<>>
    /\ ~Contains(m.vocab, m.unk_token)

Returned == pc \in {"done", "error"}

\* C13 as stated: tokenize returns UnkTokenOutOfVocabulary exactly when some
\* character has neither a vocab entry nor a complete byte fallback while the
\* configured unk_token is not in the vocab.
UnkErrorExactly == Returned => (pc = "error" <=> UnkMissing(model, input))

\* C13, amended: the same, except that a sequence the ignore_merges shortcut returns
\* whole (ignore_merges set and the sequence itself a vocab entry) is always Ok.
UnkErrorUnlessShortcut ==
    Returned =>
        (pc = "error" <=>
            (UnkMissing(model, input)
             /\ ~(model.ignore_merges /\ Contains(model.vocab, input))))

\* an error raised after a character that was found or fell back to bytes, and an Ok
\* for a sequence with a character left to no unk_token at all
UnkErrorWitness ==
    /\ pc = "error"
    /\ Len(input) >= 2
    /\ ~Unknown(model, input, 1)
    /\ model.byte_fallback


\* the value of a token is a <0xHH> string
IsByteToken(tok) == \E b \in 0..255 : tok.value = ByteToken(b)

RECURSIVE ExpectedFrom(_, _, _, _, _)
\* the tokens of the characters of w from the k-th on that are not given as bytes:
\* the token of each character that has a vocab entry, and the unk_token for each
\* character left to it (fuse_unk off) or for each run of them (fuse_unk on); pos is
\* the byte offset of the k-th character
ExpectedFrom(m, w, k, pos, acc) ==
    IF k > Len(w) THEN acc
    ELSE LET n  == pos + Utf8Len(w[k])
             s  == Surface(m, w, k)
         IN  IF Known(m, w, k)
             THEN ExpectedFrom(m, w, k + 1, n,
                               Append(acc, Token(WordToId(m.vocab, s), s, <<pos, n>>)))
             ELSE IF Fallback(m, w, k)
             THEN ExpectedFrom(m, w, k + 1, n, acc)
             ELSE IF m.fuse_unk /\ k > 1 /\ Unknown(m, w, k - 1)
             THEN ExpectedFrom(m, w, k + 1, n,
                               [acc EXCEPT ![Len(acc)].offsets[2] = n])
             ELSE ExpectedFrom(m, w, k + 1, n,
                               Append(acc, Token(WordToId(m.vocab, m.unk_token),
                                                 m.unk_token, <<pos, n>>)))

\* the unk_token is in the vocab and the model has no merges
UnkUsable(m) == m.unk_token # <<>> /\ Contains(m.vocab, m.unk_token) /\ DOMAIN m.merges = {}

\* C14: with unk_token in the vocab and no merges, the tokens merge_word gives that
\* are not bytes are those of the characters with a vocab entry, at their own
\* positions, with one unk_token spanning each maximal run of characters left to it
\* when fuse_unk is on and one unk_token per such character, at its position, when
\* fuse_unk is off.
UnkRunsFused ==
    (pc = "done" /\ UnkUsable(model) /\ ~Shortcut(model, input)) =>
        SelectSeq(tokens, LAMBDA tok : ~IsByteToken(tok)) = ExpectedFrom(model, input, 1, 0, <<>>)


\* every byte of the k-th character of w has its <0xHH> in the vocab
BytesInVocab(m, w, k) == \A b \in Range(Utf8(w[k])) : Contains(m.vocab, ByteToken(b))

\* the <0xHH> strings of the bytes of the characters of w that have no vocab entry
\* and whose bytes all have one
ExpectedBytes(m, w) ==
    Concat([k \in 1..Len(w) |->
        IF ~Known(m, w, k) /\ BytesInVocab(m, w, k)
        THEN [j \in 1..Utf8Len(w[k]) |-> ByteToken(Utf8(w[k])[j])]
        ELSE <<>>])

-----------------------------------------------------------------------------
(* compute_alphabet *)

InitialAlphabetKept == \A ch \in cfg.initial_alphabet : Contains(id_to_word, <<ch>>)

\* C16 as stated: every character of initial_alphabet is an entry of the vocabulary
\* built by compute_alphabet, whatever value limit_alphabet has.
InitialAlphabetAlwaysKept == pc = "train" => InitialAlphabetKept

\* C16, amended: every character of initial_alphabet is an entry of the vocabulary
\* built by compute_alphabet when limit_alphabet is unset or at least the number of
\* characters of initial_alphabet.
InitialAlphabetKeptWithinLimit ==
    (pc = "train" /\ (cfg.limit_alphabet = -1
                      \/ cfg.limit_alphabet >= Cardinality(cfg.initial_alphabet))) =>
        InitialAlphabetKept

\* a limit that made compute_alphabet drop a character of the corpus and keep an
\* initial_alphabet of two characters, one of them absent from the corpus
InitialAlphabetWitness ==
    /\ pc = "train"
    /\ events = <<>>
    /\ cfg.limit_alphabet = 2
    /\ cfg.initial_alphabet = {97, 99}
    /\ \E i \in 1..Len(word_counts) : \E k \in 1..Len(word_counts[i].word) :
          ~Contains(id_to_word, <<word_counts[i].word[k]>>)
    /\ InitialAlphabetKept


-----------------------------------------------------------------------------
(* the encode cache *)

\* the same model built with cache_capacity 0
Uncached(m) == [m EXCEPT !.cache_capacity = 0]

\* C17: after any sequence of tokenize and clear_cache calls, what tokenize returned
\* is what the model built with cache capacity 0 returns for the same sequence.
CacheTransparent ==
    Returned =>
        \A r \in tokenize(Uncached(model), EmptyMap, input) :
            r.err = (pc = "error") /\ r.tokens = tokens

\* a call answered from a full cache, with a word that merge_split_all had merged
CacheHitWitness ==
    /\ pc = "done"
    /\ cache_hit
    /\ Cardinality(DOMAIN cache) >= 2
    /\ Len(tokens) < Len(input)


-----------------------------------------------------------------------------
(* serialization *)

\* the splits keys of the model are ids of its vocab
SplitKeysInVocab(m) == \A id \in DOMAIN m.splits : id < Len(m.vocab)

\* C18: a model whose splits keys are ids of its vocab, serialized and then
\* deserialized, comes back with the same vocab, merges, splits, optional strings
\* and flags.
SerdeRoundTrip ==
    (pc \in {"loaded", "error"} /\ SplitKeysInVocab(model)) =>
        /\ pc = "loaded"
        /\ [restored[1] EXCEPT !.cache_capacity = model.cache_capacity] = model

\* a model read back with a split, a merge pair of a two-digit id and a pair of two
\* ranks
SerdeWitness ==
    /\ pc = "loaded"
    /\ 12 \in DOMAIN restored[1].splits
    /\ <<1, 11>> \in DOMAIN restored[1].merges
    /\ Len(restored[1].merges[<<0, 1>>]) = 2
    /\ restored[1].ignore_merges /\ ~restored[1].byte_fallback


-----------------------------------------------------------------------------
(* Word::merge on its own *)

RECURSIVE Fused(_, _, _, _, _, _)
\* the pairs (c1, c2) of `rest` fused from left to right behind the symbols `done`,
\* as (c, len), with the deltas of each fused pair: those of its left neighbour,
\* then those of its right neighbour
Fused(done, rest, c1, c2, r, max_length) ==
    IF rest = <<>> THEN [symbols |-> done, changes |-> <<>>]
    ELSE IF Len(rest) >= 2 /\ rest[1][1] = c1 /\ rest[2][1] = c2
    THEN LET new_len == rest[1][2] + rest[2][2]
             gate(x) == max_length = -1 \/ x + new_len < max_length
             left  == IF done = <<>> THEN <<>>
                      ELSE LET l == done[Len(done)]
                           IN  <<<<<<l[1], c1>>, -1>>>>
                               \o (IF gate(l[2]) THEN <<<<<<l[1], r>>, 1>>>> ELSE <<>>)
             right == IF Len(rest) < 3 THEN <<>>
                      ELSE <<<<<<c2, rest[3][1]>>, -1>>>>
                           \o (IF gate(rest[3][2]) THEN <<<<<<r, rest[3][1]>>, 1>>>> ELSE <<>>)
             then  == Fused(Append(done, <<r, new_len>>), SubSeq(rest, 3, Len(rest)),
                            c1, c2, r, max_length)
         IN  [symbols |-> then.symbols, changes |-> left \o right \o then.changes]
    ELSE Fused(Append(done, rest[1]), Tail(rest), c1, c2, r, max_length)

\* the (c, len) of the symbols of a Word
Pairs(w) == [i \in 1..Len(w) |-> <<w[i].c, w[i].len>>]

FusedCall ==
    Fused(<<>>, Pairs(call.word), call.c1, call.c2, call.replacement, call.max_length)

\* C19: Word::merge replaces each adjacent (c1, c2), from left to right and going on
\* behind the new symbol, by one symbol of c = r and len = the sum of the two; the
\* word is left without an adjacent (c1, c2), the other symbols keep their order
\* and the sum of len is what it was.
MergeFusesPairs ==
    pc = "returned" =>
        LET w == ret[1].symbols
        IN  /\ Pairs(w) = FusedCall.symbols
            /\ \A i \in 1..(Len(w) - 1) : ~(w[i].c = call.c1 /\ w[i + 1].c = call.c2)
            /\ SumSeq([i \in 1..Len(w) |-> w[i].len])
                 = SumSeq([i \in 1..Len(call.word) |-> call.word[i].len])

\* a word of four symbols, one of them of len 2, where two pairs (c, c)
\* were fused
MergeFusesWitness ==
    /\ pc = "returned"
    /\ Len(call.word) = 4
    /\ Len(ret[1].symbols) = 2
    /\ call.c1 = call.c2
    /\ \E i \in 1..4 : call.word[i].len = 2

\* C20: the deltas Word::merge returns are ((c1, c2), -1) first, then for each fused
\* pair in scan order ((left.c, c1), -1) if there is a left neighbour, ((left.c, r),
\* +1) only if left.len + new.len < max_length, ((c2, right.c), -1) if there is a
\* right neighbour and ((r, right.c), +1) only if right.len + new.len < max_length.
MergeDeltas ==
    pc = "returned" =>
        ret[1].changes = <<<<<<call.c1, call.c2>>, -1>>>> \o FusedCall.changes

\* a fused pair with both neighbours, the +1 of one of them held back by max_length
MergeDeltasWitness ==
    /\ pc = "returned"
    /\ call.max_length = 4
    /\ Len(call.word) = 4
    /\ Len(ret[1].symbols) = 3
    /\ Len(ret[1].changes) = 4

-----------------------------------------------------------------------------
(* Word::remove on its own *)

RECURSIVE Expanded(_, _, _, _)
\* every symbol of c = id of `rest` replaced by the ids of sp, from left to right
\* behind the ids `done`, with the deltas of each occurrence when max_length is
\* unbounded: -1 for the pair with the left and the pair with the right neighbour,
\* +1 for left neighbour with first split id, each consecutive pair of split ids
\* and last split id with right neighbour
Expanded(done, rest, id, sp) ==
    IF rest = <<>> THEN [chars |-> done, changes |-> <<>>]
    ELSE IF rest[1] = id
    THEN LET k     == Len(sp)
             gone  == (IF done = <<>> THEN <<>> ELSE <<<<<<done[Len(done)], id>>, -1>>>>)
                      \o (IF Len(rest) < 2 THEN <<>> ELSE <<<<<<id, rest[2]>>, -1>>>>)
             left  == IF done = <<>> THEN <<>> ELSE <<<<<<done[Len(done)], sp[1]>>, 1>>>>
             inner == [j \in 1..(k - 1) |-> <<<<sp[j], sp[j + 1]>>, 1>>]
             right == IF Len(rest) < 2 THEN <<>> ELSE <<<<<<sp[k], rest[2]>>, 1>>>>
             then  == Expanded(done \o sp, Tail(rest), id, sp)
         IN  [chars |-> then.chars, changes |-> gone \o left \o inner \o right \o then.changes]
    ELSE Expanded(Append(done, rest[1]), Tail(rest), id, sp)

ExpandedCall == Expanded(<<>>, get_chars(call.word), call.removed_token, call.split)

\* the sum of the deltas that `changes` holds for the pair p
Net(changes, p) ==
    SumSeq([i \in 1..Len(changes) |-> IF changes[i][1] = p THEN changes[i][2] ELSE 0])

\* C21: Word::remove replaces every symbol of c = id by the ids of split in order
\* and, for every occurrence at any index, with max_length unbounded, its deltas
\* amount for every pair to -1 for each vanished neighbour pair and +1 for each
\* newly adjacent pair: left neighbour with first split id, consecutive split ids,
\* last split id with right neighbour.
RemoveExpandsWithDeltas ==
    (pc = "returned" /\ call.method = "remove" /\ call.max_length = -1) =>
        /\ get_chars(ret[1].symbols) = ExpandedCall.chars
        /\ \A i \in 1..Len(ExpandedCall.changes) :
              LET p == ExpandedCall.changes[i][1]
              IN  Net(ret[1].changes, p) = Net(ExpandedCall.changes, p)
        /\ \A i \in 1..Len(ret[1].changes) :
              LET p == ret[1].changes[i][1]
              IN  Net(ret[1].changes, p) = Net(ExpandedCall.changes, p)

\* the sum of len over the symbols of a Word
TotalLen(w) == SumSeq([i \in 1..Len(w) |-> w[i].len])

\* C22: Word::remove keeps the sum of len over the symbols of the word, for every
\* removed id and every split.
RemoveKeepsTotalLen ==
    (pc = "returned" /\ call.method = "remove") =>
        TotalLen(ret[1].symbols) = TotalLen(call.word)

-----------------------------------------------------------------------------
(* The symbol chain after merge_split_all *)

\* C23: when merge_split_all has returned, after the final compaction, every symbol
\* i whose next is j >= 0 has j a valid index of the symbol vector and
\* symbols[j].prev = i.
ChainConsistent ==
    pc = "done" =>
        \A i \in 0..(Len(symbols) - 1) :
           LET j == symbols[i + 1].next
           IN  j >= 0 => (j < Len(symbols) /\ symbols[j + 1].prev = i)

-----------------------------------------------------------------------------
(* The retraction step of a training iteration *)

\* a step of the main loop that logged a Merge event
MergedStep == pc = "train" /\ pc' = "train" /\ Len(merges') = Len(merges) + 1

\* the Split events that such a step logged, as (id, split) in logged order
NewSplits == SubSeq(splits', Len(splits) + 1, Len(splits'))

\* the step retracted the parent p
RetractedNow(p) == \E k \in 1..Len(NewSplits) : NewSplits[k][1] = p

\* count_merged_tokens[p] as the step reads it for the parent p: the value at the
\* start of the step, less the update on remove of pair.0 when p is pair.1 and
\* pair.0 was retracted
CountRead(p) ==
    LET pair == last_pop'.pair
    IN  IF p = pair[2] /\ pair[1] # pair[2] /\ RetractedNow(pair[1])
        THEN count_merged_tokens[p]
               - last_pop'.priority * Occurrences(NewSplits[1][2], p)
        ELSE count_merged_tokens[p]

\* p is a merge-produced id flagged active at the start of the step
ActiveMerged(p) == p >= atomic_size /\ id_active[p - atomic_size + 1] = 1

\* C24 as stated: a parent of the merged pair is retracted exactly if it is
\* merge-produced, active, and priority / c >= tau for c the count of the parent
\* after its decrement by pair_counts[pair] in the step.
RetractsOnCountAfter ==
    [][MergedStep =>
         \A p \in Range(last_pop'.pair) :
            RetractedNow(p) <=>
               /\ ActiveMerged(p)
               /\ IosReached(last_pop'.priority,
                             CountRead(p) - pair_counts[last_pop'.pair], cfg.tau)]_vars

\* C24, amended: a parent of the merged pair is retracted exactly if it is
\* merge-produced, active, and priority / c >= tau for c the count of the parent
\* as it is before its decrement by pair_counts[pair] in the step.
RetractsOnCountBefore ==
    [][MergedStep =>
         \A p \in Range(last_pop'.pair) :
            RetractedNow(p) <=>
               /\ ActiveMerged(p)
               /\ IosReached(last_pop'.priority, CountRead(p), cfg.tau)]_vars

\* a merge whose first parent was merge-produced and was kept, although priority
\* over its count after the decrement reaches tau
RetractsWitness ==
    /\ pc = "train"
    /\ last_pop.kind = "merge"
    /\ events[Len(events)][1] = "Merge"
    /\ last_pop.pair[1] >= atomic_size
    /\ count_merged_tokens[last_pop.pair[1]] > 0
    /\ IosReached(last_pop.priority, count_merged_tokens[last_pop.pair[1]], cfg.tau)

-----------------------------------------------------------------------------
(* The ranks of the Split events *)

\* the pairs whose merges bucket holds an entry of rank r
MergeAt(r) == {p \in DOMAIN merges_map : \E k \in 1..Len(merges_map[p]) : merges_map[p][k][1] = r}

\* the ids whose splits bucket holds an entry of rank r
SplitAt(r) == {id \in DOMAIN splits_map : \E k \in 1..Len(splits_map[id]) : splits_map[id][k][1] = r}

\* the Split of rank r stands directly after the merge that retracted its id: it
\* follows a Merge of which the id is pair.0, or pair.1 with pair.0 being another
\* id, or it follows the Split of pair.0 of a Merge of which the id is pair.1
FollowsItsMerge(r, id) ==
    \/ \E p \in MergeAt(r - 1) : p[1] = id \/ p[2] = id
    \/ \E p \in MergeAt(r - 2) : p[1] # id /\ p[2] = id /\ p[1] \in SplitAt(r - 1)

\* C25: every retraction is logged directly after the merge that triggered it: the
\* Splits of a merge of rank r take the ranks r+1 (and r+2), pair.0 before pair.1,
\* a parent is retracted once at most per merge, and the ranks run on without a
\* gap, so that the next Merge takes the first rank after them.
SplitsFollowTheirMerge ==
    pc = "model" =>
        /\ \A r \in 0..(Len(events) - 1) :
              /\ Cardinality(MergeAt(r)) + Cardinality(SplitAt(r)) = 1
              /\ \A id \in SplitAt(r) : FollowsItsMerge(r, id)
        /\ \A r \in 0..(Len(events) - 2) : \A id \in SplitAt(r) : id \notin SplitAt(r + 1)

\* a model in which one merge retracted both of its parents, and a later Merge
\* follows their Splits
SplitsFollowWitness ==
    /\ pc = "model"
    /\ \E r \in 2..(Len(events) - 2) :
          /\ SplitAt(r) # {} /\ SplitAt(r - 1) # {} /\ MergeAt(r + 1) # {}

-----------------------------------------------------------------------------
(* The pop check of the main loop *)

\* a step of the main loop: it pops the entry that last_pop' records
PopStep == pc = "train" /\ pc' # "model"

\* the popped entry passes the pop check on the state it was popped from
PassesPopCheck ==
    /\ last_pop'.priority >= 1
    /\ last_pop'.priority >= cfg.min_frequency
    /\ \A id \in Range(last_pop'.pair) : Usable(id, id_active)

\* C26: every Merge event was emitted for an entry popped with a priority of at
\* least 1 and at least min_frequency whose two ids were atomic or flagged active
\* at the pop; a popped entry failing any of these is discarded and vocabulary,
\* corpus, event log and pair counts stay as they were.
MergesPassPopCheck ==
    [][PopStep =>
         /\ last_pop'.pair \in DOMAIN queue
         /\ last_pop'.priority = queue[last_pop'.pair].priority
         /\ events' # events => PassesPopCheck
         /\ ~PassesPopCheck =>
               UNCHANGED <<id_to_word, id_active, parents, actual_vocab_size, words,
                           events, merges, splits, pair_counts, count_merged_tokens>>]_vars

\* an entry of two usable ids and of a priority of at least 1, discarded for
\* min_frequency after a Merge and a Split were logged
PopCheckWitness ==
    /\ pc = "train"
    /\ last_pop.kind = "discard"
    /\ last_pop.priority >= 1
    /\ last_pop.priority < cfg.min_frequency
    /\ \A id \in Range(last_pop.pair) : Usable(id, id_active)
    /\ splits # <<>>

-----------------------------------------------------------------------------
(* The id of a merged token *)

\* the string of the token that the popped pair is merged to
MergedString == NewToken(TrainerState, cfg, last_pop'.pair)

\* the step logged one Merge event, for the popped pair and the id `id`
LogsMerge(id) ==
    /\ merges' = Append(merges, <<last_pop'.pair, id>>)
    /\ Len(events') > Len(events)
    /\ SubSeq(events', 1, Len(events) + 1) = Append(events, <<"Merge", Len(merges)>>)

\* C27: a merge whose token string is in the vocabulary already allocates no id:
\* the Merge event references the existing id, whose active flag is 1 afterwards,
\* and vocab and parents keep their size; any other merge takes the previous
\* vocabulary size as the new id, and vocab, parents and id_active grow by one.
MergeReusesOrAllocates ==
    [][(PopStep /\ PassesPopCheck) =>
         IF Contains(id_to_word, MergedString)
         THEN LET id == WordToId(id_to_word, MergedString)
              IN  /\ LogsMerge(id)
                  /\ id_to_word' = id_to_word
                  /\ parents' = parents
                  /\ Len(id_active') = Len(id_active)
                  /\ id >= atomic_size
                  /\ id_active'[id - atomic_size + 1] = 1
         ELSE /\ LogsMerge(Len(id_to_word))
              /\ id_to_word' = Append(id_to_word, MergedString)
              /\ parents' = Append(parents, last_pop'.pair)
              /\ Len(id_active') = Len(id_active) + 1
              /\ id_active'[Len(id_active')] = 1]_vars

-----------------------------------------------------------------------------
(* The training queue *)

\* C28: at the start of every iteration of the main loop, the priority of every
\* entry of the training queue is the current pair_counts value of its pair.
QueueMatchesCounts ==
    pc = "train" =>
        \A p \in DOMAIN queue : p \in DOMAIN pair_counts /\ queue[p].priority = pair_counts[p]

\* after a retraction, a queue with an entry whose count was brought down to zero
\* or less and with an entry of a positive count that holds a merge-produced id
QueueMatchesWitness ==
    /\ pc = "train"
    /\ splits # <<>>
    /\ \E p \in DOMAIN queue : queue[p].priority <= 0
    /\ \E p \in DOMAIN queue : queue[p].priority > 0 /\ p[1] >= atomic_size

-----------------------------------------------------------------------------
(* The ids of the corpus *)

\* C29: at the end of every training iteration every symbol id of every corpus Word
\* is an atomic id or a merge-produced id whose active flag is 1: no retracted id
\* is left in the corpus.
CorpusIdsUsable ==
    pc = "train" =>
        \A i \in 1..Len(words) : \A k \in 1..Len(words[i]) : Usable(words[i][k].c, id_active)

\* a retraction just logged that replaced an occurrence of the retracted id in a
\* corpus Word: the ids of the expansion stand side by side in it, each with the
\* byte length of the retracted token
CorpusIdsWitness ==
    /\ pc = "train"
    /\ events # <<>>
    /\ events[Len(events)][1] = "Split"
    /\ LET id == splits[Len(splits)][1]
           sp == splits[Len(splits)][2]
           n  == Len(Bytes(id_to_word[id + 1]))
       IN  \E i \in 1..Len(words) : \E k \in 0..(Len(words[i]) - Len(sp)) :
              \A j \in 1..Len(sp) : words[i][k + j].c = sp[j] /\ words[i][k + j].len = n

-----------------------------------------------------------------------------
(* What merge_split_all enqueues after an event *)

\* the event that the next turn of the loop of merge_split_all pops
Popped == CHOOSE e \in HeapTops(heap) : TRUE

\* the popped event passes the guards of its branch and is applied
PoppedApplies ==
    /\ pc = "turn"
    /\ IF Popped.kind = "Merge" THEN MergeApplies(symbols, call.merges, Popped)
       ELSE SplitApplies(symbols, call.splits, Popped)

\* the popped event is applied and writes a symbol at pos: a Merge, or a Split
\* whose expansion is not empty
PoppedWrites == PoppedApplies /\ (Popped.kind = "Split" => Popped.split # <<>>)

\* the entries of a bucket whose rank is greater than r and lowest among those
LowestAbove(vec, r) ==
    {vec[k] : k \in {j \in 1..Len(vec) :
                        /\ vec[j][1] > r
                        /\ \A i \in 1..Len(vec) : vec[i][1] > r => vec[j][1] <= vec[i][1]}}

\* the Merge events due for the pair of the symbol at slot i with the id c to its
\* right, when there is a symbol at i
MergesDue(i, left_c, right_c, r) ==
    {MergeEvent(i, e[1], e[2]) : e \in LowestAbove(Get(call.merges, <<left_c, right_c>>), r)}

\* the events due after the popped event was applied at pos: for the boundary with
\* the left neighbour, for the boundary of the last written symbol with the right
\* neighbour, and the Split of the id now at pos
EventsDue ==
    LET pos   == Popped.pos
        r     == Popped.rank
        left  == symbols[pos + 1].prev
        first == IF Popped.kind = "Merge" THEN Popped.new_id ELSE Popped.split[1]
        last  == IF Popped.kind = "Merge" THEN Popped.new_id
                 ELSE Popped.split[Len(Popped.split)]
        at    == IF Popped.kind = "Merge" THEN pos ELSE pos + Len(Popped.split) - 1
        right == IF Popped.kind = "Merge" THEN symbols[symbols[pos + 1].next + 1].next
                 ELSE symbols[pos + 1].next
    IN  (IF left >= 0 THEN MergesDue(left, symbols[left + 1].c, first, r) ELSE {})
        \cup (IF right >= 0 /\ right < Len(symbols)
              THEN MergesDue(at, last, symbols[right + 1].c, r) ELSE {})
        \cup {SplitEvent(pos, e[1], e[2]) : e \in LowestAbove(Get(call.splits, first), r)}

\* the events that the turn pushed: those of heap' beyond the heap less the popped
Enqueued ==
    LET old == HeapRemove(heap, Popped)
    IN  {e \in DOMAIN heap' : e \notin DOMAIN old \/ heap'[e] > old[e]}

\* C30: after applying an event of rank r, merge_split_all has enqueued, for the
\* boundary with the left neighbour of pos and for the boundary of the last written
\* symbol with its right neighbour, the lowest-ranked merges entry of the pair with
\* rank > r if there is one, and the lowest Split of rank > r of the id now at pos
\* if there is one; no event of rank <= r is enqueued.
EnqueuesBoundaries ==
    [][PoppedWrites =>
         /\ \A e \in EventsDue : e \in Enqueued
         /\ \A e \in Enqueued : e.rank > Popped.rank]_vars


-----------------------------------------------------------------------------
(* merge_split_all never fails *)

\* every index the loop can follow is inside the symbol vector: the pos of every
\* event in the heap, and the prev and next of every symbol (-1 is "none")
IndicesInside ==
    /\ \A e \in DOMAIN heap : e.pos \in 0..(Len(symbols) - 1)
    /\ \A i \in 1..Len(symbols) :
         /\ symbols[i].prev \in -1..(Len(symbols) - 1)
         /\ symbols[i].next \in -1..(Len(symbols) - 1)

\* C32: merge_split_all never fails: in every turn of its loop every index it
\* follows is inside the symbol vector, the turn does not panic, and an event that
\* fails the liveness, freshness or overrun check leaves the word unchanged.
ReplayNeverFails ==
    [][pc = "turn" =>
         /\ IndicesInside
         /\ pc' # "panicked"
         /\ ~PoppedApplies => symbols' \in {symbols, Retain(symbols)}]_vars


-----------------------------------------------------------------------------
(* merge_split_all terminates *)

\* C31: merge_split_all terminates on every word and every merges/splits tables:
\* after finitely many pops the heap is empty and the call returns.
ReplayTerminates == <>(pc = "returned" /\ DOMAIN heap = {})


-----------------------------------------------------------------------------
(* The links of live symbols during merge_split_all *)

\* the slot index i (from 0) is -1 or that of a live symbol
LiveOrNone(i) == i = -1 \/ (i \in 0..(Len(symbols) - 1) /\ symbols[i + 1].len > 0)

\* the Merge event that the next turn of the loop of tokenize's merge_split_all pops
\* and applies, if it is one
AppliedMerge ==
    {e \in HeapTops(heap) : e.kind = "Merge" /\ MergeApplies(symbols, merges_map, e)}

\* C38: during merge_split_all the next and prev of every live symbol are -1 or
\* refer to a live symbol, so an applied merge never takes a tombstoned slot as its
\* right neighbour.
LinksStayLive ==
    pc = "replay" =>
      /\ \A i \in 1..Len(symbols) :
           symbols[i].len > 0 => LiveOrNone(symbols[i].next) /\ LiveOrNone(symbols[i].prev)
      /\ \A e \in AppliedMerge : symbols[symbols[e.pos + 1].next + 1].len > 0


-----------------------------------------------------------------------------
(* The words of a parallel merge *)

\* C33: in every parallel application of Word::merge for a merge event, the list
\* of word indices it iterates holds no index twice and every index is below the
\* number of words, so no two tasks touch the same Word.
ParallelMergeDisjoint ==
    last_pop.kind = "merge" =>
      /\ \A j, k \in 1..Len(last_pop.pos) : last_pop.pos[j] = last_pop.pos[k] => j = k
      /\ \A k \in 1..Len(last_pop.pos) : last_pop.pos[k] \in 0..(Len(words) - 1)

\* a merge after the first one, applied to two words or more
ParallelMergeWitness ==
    /\ last_pop.kind = "merge"
    /\ Len(last_pop.pos) >= 2
    /\ Len(merges) >= 2


-----------------------------------------------------------------------------
(* The words a merge is applied to *)

\* C36: when training applies a Merge event for the pair (a, b), the position list
\* of the popped queue entry holds the index of every corpus word in which a is
\* directly followed by b, and right after the step no corpus word has a directly
\* followed by b.
MergeCoversWords ==
    [][MergedStep =>
         \A i \in 1..Len(words) :
            /\ PairOcc(words[i], last_pop'.pair) > 0 =>
                  \E k \in 1..Len(last_pop'.pos) : last_pop'.pos[k] = i - 1
            /\ PairOcc(words'[i], last_pop'.pair) = 0]_vars


-----------------------------------------------------------------------------
(* pair_counts against the corpus *)

\* the occurrences of the pair p as two adjacent symbols, over the corpus words,
\* each weighted by the count of its word
CorpusCount(p) ==
    SumSeq([i \in 1..Len(words) |-> counts[i] * PairOcc(words[i], p)])

\* C35: with max_token_length unset, at the start of every iteration of the main
\* loop pair_counts[p] is, for every pair p, the sum over the corpus words of the
\* word's count times the occurrences of p in it; no pair count is negative.
PairCountsExact ==
    (pc = "train" /\ cfg.max_token_length = -1) =>
        \A p \in DOMAIN pair_counts \cup UNION {PairsOf(words[i]) : i \in 1..Len(words)} :
            /\ p \in DOMAIN pair_counts
            /\ pair_counts[p] = CorpusCount(p)
            /\ pair_counts[p] >= 0


-----------------------------------------------------------------------------
(* do_train terminates *)

\* the variant of the main loop: an iteration that merges appends to the event
\* log, an iteration that discards the popped item leaves the log alone and the
\* queue one item shorter
LoopAdvances ==
    \/ Len(events') > Len(events) /\ Len(events') < MaxEvents
    \/ events' = events /\ Cardinality(DOMAIN queue') < Cardinality(DOMAIN queue)

\* C34: do_train terminates for every word_counts and configuration: every
\* iteration of the main loop advances a bounded variant and runs to its end, and
\* the step that leaves the loop is the one taken at the target vocabulary size or
\* on an empty queue.
LoopReachesEnd ==
    [][pc = "train" => \/ pc' = "train" /\ LoopGoesOn /\ LoopAdvances
                       \/ pc' = "model" /\ ~LoopGoesOn]_vars

\* the number of merge-produced ids whose active flag is 1
ActiveCount == Cardinality({i \in 1..Len(id_active) : id_active[i] = 1})

\* C37: throughout the main loop actual_vocab_size is the number of atomic ids
\* plus the number of merge-produced ids whose active flag is 1.
VocabSizeCountsActive ==
    pc = "train" => actual_vocab_size = atomic_size + ActiveCount

\* id is the id of an entry of id_active (and of parents)
InFlagRange(id) == id >= atomic_size /\ id < atomic_size + Len(id_active)

\* the ids whose active flag the step reads or writes: the merge-produced ids of
\* the popped pair (lines 578-581, 688, 742, behind `>= atomic_size`), and the id of
\* the merged string where the vocabulary holds it already (line 616)
FlagIds ==
    {p \in Range(last_pop'.pair) : p >= atomic_size}
    \cup (IF PassesPopCheck /\ Contains(id_to_word, MergedString)
          THEN {WordToId(id_to_word, MergedString)} ELSE {})

\* C40: do_train never indexes id_active or parents out of range: every id whose
\* active flag an iteration reads or writes is at least |atomic| and below
\* |atomic| + |id_active|, and no iteration stops on an index.
FlagIndexInRange ==
    [][PopStep => /\ \A id \in FlagIds : InFlagRange(id)
                  /\ last_pop'.kind # "panic"]_vars

\* the pending unk of merge_word as the characters it stands for: <<>> (None) or
\* <<first, last>>; added to the list when merge_word adds the unk to the Word
FlushChars(chars, unk) == IF unk = <<>> THEN chars ELSE Append(chars, unk)

RECURSIVE SymbolChars(_, _, _, _, _)
\* the character loop of merge_word, keeping for every symbol it adds to the Word
\* the characters <<first, last>> of w that the symbol was produced for
SymbolChars(m, w, k, chars, unk) ==
    IF k > Len(w) THEN FlushChars(chars, unk)
    ELSE
    LET s1 == IF k # 1 THEN m.continuing_subword_prefix \o <<w[k]>> ELSE <<w[k]>>
        s  == IF k = Len(w) THEN s1 \o m.end_of_word_suffix ELSE s1
        bs == Bytes(s)
    IN  IF Contains(m.vocab, s)
        THEN SymbolChars(m, w, k + 1, Append(FlushChars(chars, unk), <<k, k>>), <<>>)
        ELSE IF ByteFallback(m, bs)
        THEN SymbolChars(m, w, k + 1, chars \o [j \in 1..Len(bs) |-> <<k, k>>], unk)
        ELSE IF m.unk_token = <<>>
        THEN SymbolChars(m, w, k + 1, chars, unk)
        ELSE IF unk # <<>> /\ m.fuse_unk
        THEN SymbolChars(m, w, k + 1, chars, <<unk[1], k>>)
        ELSE IF ~Contains(m.vocab, m.unk_token)
        THEN <<>>
        ELSE SymbolChars(m, w, k + 1, FlushChars(chars, unk), <<k, k>>)

\* C39: merge_word builds the initial Word in input order: a symbol produced for
\* an earlier character precedes every symbol produced for a later character.
InitialWordInOrder ==
    (pc = "done" /\ ~cache_hit /\ ~Shortcut(model, input)) =>
        LET chars == SymbolChars(model, input, 1, <<>>, <<>>)
        IN  /\ Len(chars) = Len(InitialWord(model, input).symbols)
            /\ \A i \in 1..Len(chars) : \A j \in 1..Len(chars) :
                  i < j => chars[i][1] <= chars[j][1] /\ chars[i][2] <= chars[j][2]

====
